---- MODULE Spec2Model ----
(***************************************************************************)
(* The annotation editor of src/src/components/PdfEditor.jsx: the React    *)
(* state cells of the component, one action per event handler, and the     *)
(* replay of the annotation store into pdf-lib drawing operations that     *)
(* handleSave performs.                                                    *)
(*                                                                         *)
(* Numbers.  Pointer coordinates are integers (offsetX/offsetY).  Scale    *)
(* factors and everything derived from them are JavaScript doubles in the  *)
(* code; they are modelled as exact rationals <<n, d>> in lowest terms     *)
(* with d > 0, so rounding error is not modelled.                          *)
(***************************************************************************)
EXTENDS Integers, Sequences, FiniteSets, TLC

(***************************************************************************)
(* Bounds of the model.                                                    *)
(***************************************************************************)
MaxAnns == 2        \* committed annotations in the store, all pages together
MaxPoints == 3      \* points captured by one pen/highlight gesture

\* JavaScript null / undefined.
NULL == [type |-> "null"]

(***************************************************************************)
(* Rational arithmetic (the doubles of the code, without rounding).        *)
(***************************************************************************)
Abs(n) == IF n < 0 THEN -n ELSE n

RECURSIVE Gcd(_, _)
Gcd(a, b) == IF b = 0 THEN a ELSE Gcd(b, a % b)

RNorm(n, d) ==
    LET s == IF d < 0 THEN -1 ELSE 1
        g == Gcd(Abs(n), Abs(d))
    IN  <<(s * n) \div g, (s * d) \div g>>

R(n) == <<n, 1>>
RMul(a, b) == RNorm(a[1] * b[1], a[2] * b[2])
RDiv(a, b) == RNorm(a[1] * b[2], a[2] * b[1])
RAdd(a, b) == RNorm(a[1] * b[2] + b[1] * a[2], a[2] * b[2])
RSub(a, b) == RNorm(a[1] * b[2] - b[1] * a[2], a[2] * b[2])
RLess(a, b) == a[1] * b[2] < b[1] * a[2]
RLeq(a, b) == a[1] * b[2] <= b[1] * a[2]
RMin(a, b) == IF RLess(b, a) THEN b ELSE a

(***************************************************************************)
(* The environment: what the browser and the libraries hand to the code.   *)
(***************************************************************************)
\* The document: page.getSize() of pdf-lib for each page, in document units.
DocPages == <<[width |-> 300, height |-> 400], [width |-> 400, height |-> 300]>>

NumDocPages == Len(DocPages)

PageSize(p) == DocPages[p]

\* page.width / page.height of react-pdf: the size page p is rasterized at.
RenderSize(p) == IF p % 2 = 1 THEN [width |-> 600, height |-> 800]
                              ELSE [width |-> 300, height |-> 200]

\* Files the user can pick in the image dialog, with their decoded size.
WideJpg == [name |-> "wide.jpg", mime |-> "image/jpeg", width |-> 400, height |-> 100]
SmallPng == [name |-> "small.png", mime |-> "image/png", width |-> 100, height |-> 50]
\* accept="image/*" also lets through formats pdf-lib cannot embed.
TinyGif == [name |-> "tiny.gif", mime |-> "image/gif", width |-> 20, height |-> 20]

\* A character the standard font's WinAnsi encoding has no code for (U+263A).
Unencodable == "U+263A"

(***************************************************************************)
(* What the user does in one session of the editor.  A session draws its   *)
(* inputs from one of these families:                                      *)
(*   points     offsetX/offsetY of the pointer events on the canvas        *)
(*   texts      values the textarea takes (sequences of characters)        *)
(*   files      files picked in the image dialog                           *)
(*   maxPoints  points captured by one pen/highlight gesture               *)
(*   maxAnns    annotations committed before the user stops                *)
(*   passwords  answers typed into the password prompt                     *)
(*   faults     stages of a save that can throw in this session            *)
(***************************************************************************)
\* The awaited or called stages of a save that can throw outside the replay loop.
SaveStages == {"fetch", "load", "encrypt", "serialize"}

DeepSession ==
    [name |-> "deep", points |-> {<<10, 10>>}, texts |-> {<<"a">>, <<Unencodable>>},
     files |-> {}, maxPoints |-> 1, maxAnns |-> MaxAnns, passwords |-> {},
     faults |-> {}]

PenSession ==
    [name |-> "pen", points |-> {<<10, 10>>, <<21, 12>>}, texts |-> {<<>>},
     files |-> {}, maxPoints |-> MaxPoints, maxAnns |-> 1, passwords |-> {"", "pw"},
     faults |-> SaveStages]

ShapeSession ==
    [name |-> "shape", points |-> {<<10, 10>>, <<15, 15>>, <<21, 12>>},
     texts |-> {<<>>, <<" ">>, <<"a">>, <<" ", "a", " ">>},
     files |-> {WideJpg, SmallPng}, maxPoints |-> 1, maxAnns |-> 1,
     passwords |-> {}, faults |-> {}]

FaultSession ==
    [name |-> "fault", points |-> {<<10, 10>>}, texts |-> {<<Unencodable>>},
     files |-> {TinyGif}, maxPoints |-> 1, maxAnns |-> 1, passwords |-> {},
     faults |-> {}]

Sessions == {DeepSession, PenSession, ShapeSession, FaultSession}

\* Decoded widths and heights for the image-staging specification.
ImageDims == {1, 50, 100, 199, 200, 201, 400, 1000}

ImageSession ==
    [name |-> "image", points |-> {<<10, 10>>}, texts |-> {<<>>},
     files |-> {[name |-> "picked", mime |-> "image/png", width |-> w, height |-> h] :
                  w \in ImageDims, h \in ImageDims},
     maxPoints |-> 1, maxAnns |-> 1, passwords |-> {}, faults |-> {}]

Tools == {"view", "pen", "highlight", "text", "rect", "image", "note"}

VARIABLES
    env,            \* the session's input family (constant through a behaviour)
    numPages,       \* useState(null): 0 stands for null
    pageNumber,     \* useState(1)
    tool,           \* useState('view')
    annotations,    \* useState({}): page number -> sequence of annotations
    currentPath,    \* useState([])
    currentRect,    \* useState(null)
    isDrawing,      \* useState(false)
    textInput,      \* useState(null)
    pendingImage,   \* useState(null)
    pageDims,       \* useState({}): page number -> {width, height}
    pdfPassword,    \* useState('')
    fileDialog,     \* the browser's file dialog of the hidden <input> is open
    decoding,       \* the Image object whose onload has not fired yet
    captured,       \* history: the pointer samples of the interaction in progress
    committed,      \* history: the annotations in the order they were committed
    out,            \* what the last handler emitted (the result of a save, an alert)
    mode,           \* App.jsx useState('home'): the screen that is mounted
    orgFile,        \* OrganizeScreen file: useState(null)
    pdfBytes,       \* useState(null): the pages of the in-memory document (<<>>: null)
    pdfUrl,         \* useState(null): the n-th object URL displayPdf made (0: null)
    pageCount,      \* useState(0)
    selectedPages,  \* useState(new Set())
    cropMode,       \* useState(null): a page index (NoIndex: null)
    isProcessing,   \* useState(false)
    loadError,      \* useState(null)
    cropRect,       \* useState({ x: 10, y: 10, width: 80, height: 80 })
    draggedIndex,   \* useState(null): a page index (NoIndex: null)
    reading,        \* the picked file whose arrayBuffer() is awaited
    loadedUrl,      \* the object URL whose document react-pdf has loaded
    dragging,       \* a drag that started on a page of the grid is in progress
    flights,        \* the asynchronous operations in flight, with what they captured
    done            \* history: the structure edits that replaced the document

vars == <<env, numPages, pageNumber, tool, annotations, currentPath, currentRect,
          isDrawing, textInput, pendingImage, pageDims, pdfPassword, fileDialog,
          decoding, captured, committed, out, mode, orgFile, pdfBytes, pdfUrl,
          pageCount, selectedPages, cropMode, isProcessing, loadError, cropRect,
          draggedIndex, reading, loadedUrl, dragging, flights, done>>

\* The state of OrganizeScreen and of the operations in flight.
organizeVars == <<mode, orgFile, pdfBytes, pdfUrl, pageCount, selectedPages, cropMode,
                  isProcessing, loadError, cropRect, draggedIndex, reading, loadedUrl,
                  dragging, flights, done>>

\* null for the page indices cropMode and draggedIndex.
NoIndex == 0 - 1

\* useState({ x: 10, y: 10, width: 80, height: 80 }), percentages.
DefaultCropRect == [x |-> 10, y |-> 10, width |-> 80, height |-> 80]

docVars == <<env, numPages, pageNumber, pageDims, pdfPassword>>
drawVars == <<currentPath, currentRect, isDrawing>>
imageVars == <<pendingImage, fileDialog, decoding>>

\* The components right after they are mounted, in a session of family e.
Mounted(e) ==
    /\ env = e
    /\ numPages = 0
    /\ pageNumber = 1
    /\ tool = "view"
    /\ annotations = <<>>
    /\ currentPath = <<>>
    /\ currentRect = NULL
    /\ isDrawing = FALSE
    /\ textInput = NULL
    /\ pendingImage = NULL
    /\ pageDims = <<>>
    /\ pdfPassword = ""
    /\ fileDialog = FALSE
    /\ decoding = NULL
    /\ captured = <<>>
    /\ committed = <<>>
    /\ out = NULL
    /\ orgFile = NULL
    /\ pdfBytes = <<>>
    /\ pdfUrl = 0
    /\ pageCount = 0
    /\ selectedPages = {}
    /\ cropMode = NoIndex
    /\ isProcessing = FALSE
    /\ loadError = NULL
    /\ cropRect = DefaultCropRect
    /\ draggedIndex = NoIndex
    /\ reading = NULL
    /\ loadedUrl = 0
    /\ dragging = FALSE
    /\ flights = <<>>
    /\ done = <<>>

Init == mode = "editor" /\ \E e \in Sessions : Mounted(e)

(***************************************************************************)
(* Helpers on the annotation store.                                        *)
(***************************************************************************)
\* prev[page] || []
PageList(anns, page) == IF page \in DOMAIN anns THEN anns[page] ELSE <<>>

\* Variant: the page's list is replaced by the new annotation alone.
AddAnnotationAlone(anns, page, newAnn) ==
    [p \in (DOMAIN anns) \cup {page} |-> IF p = page THEN <<newAnn>> ELSE anns[p]]

\* Variant: the new annotation is put in front of the page's list.
AddAnnotationFront(anns, page, newAnn) ==
    [p \in (DOMAIN anns) \cup {page} |->
        IF p = page THEN <<newAnn>> \o PageList(anns, page) ELSE anns[p]]

\* { ...prev, [page]: [...(prev[page] || []), newAnn] }
AddAnnotation(anns, page, newAnn) ==
    [p \in (DOMAIN anns) \cup {page} |->
        IF p = page THEN Append(PageList(anns, page), newAnn) ELSE anns[p]]

RECURSIVE SumLen(_, _)
SumLen(anns, pages) ==
    IF pages = {} THEN 0
    ELSE LET p == CHOOSE q \in pages : TRUE
         IN  Len(anns[p]) + SumLen(anns, pages \ {p})

TotalAnnotations == SumLen(annotations, DOMAIN annotations)

\* The model stops taking new input once the store is full.
Room == TotalAnnotations < env.maxAnns

\* The history variable committed gains an entry whenever a handler adds an annotation
\* to the store: the page it was added to and the annotation.
Recorded ==
    committed' =
        IF annotations' = annotations THEN committed
        ELSE LET p == CHOOSE q \in DOMAIN annotations' :
                          PageList(annotations, q) # annotations'[q]
             IN  Append(committed, [page |-> p, ann |-> annotations'[p][Len(annotations'[p])]])

\* The history variable captured holds the offsets the canvas was handed during the
\* interaction in progress: every sample of a pen/highlight gesture, the first and the
\* latest sample of a rect gesture, the click that opened the text input; right after
\* a click that opened nothing it holds that click.  A step outside an interaction
\* clears it.
KeepCaptured ==
    captured' = IF isDrawing \/ textInput # NULL THEN captured ELSE <<>>

\* The pointer is free to press a button: no drag is in progress on the canvas, the
\* textarea (autoFocus, confirmed on blur) is not open, and the modal file dialog is
\* closed.
PointerFree == ~isDrawing /\ textInput = NULL /\ ~fileDialog

(***************************************************************************)
(* Document and page loading, navigation, tool selection.                  *)
(***************************************************************************)
\* onDocumentLoadSuccess: react-pdf has parsed the document.
OnDocumentLoadSuccess ==
    /\ numPages = 0
    /\ numPages' = NumDocPages
    /\ KeepCaptured
    /\ out' = NULL
    /\ UNCHANGED organizeVars
    /\ UNCHANGED <<env, pageNumber, pageDims, pdfPassword, tool, annotations, committed, textInput>>
    /\ UNCHANGED <<drawVars, imageVars>>

\* onPageLoadSuccess: the displayed page has been loaded; its render size is recorded.
OnPageLoadSuccess ==
    /\ numPages # 0
    /\ pageDims' = [p \in (DOMAIN pageDims) \cup {pageNumber} |->
                        IF p = pageNumber THEN RenderSize(pageNumber) ELSE pageDims[p]]
    /\ KeepCaptured
    /\ out' = NULL
    /\ UNCHANGED organizeVars
    /\ UNCHANGED <<env, numPages, pageNumber, pdfPassword, tool, annotations, committed, textInput>>
    /\ UNCHANGED <<drawVars, imageVars>>

\* The Prev button: disabled={pageNumber <= 1}.
PrevPage ==
    /\ PointerFree
    /\ ~(pageNumber <= 1)
    /\ pageNumber' = pageNumber - 1
    /\ captured' = <<>>
    /\ out' = NULL
    /\ UNCHANGED organizeVars
    /\ UNCHANGED <<env, numPages, pageDims, pdfPassword, tool, annotations, committed, textInput>>
    /\ UNCHANGED <<drawVars, imageVars>>

\* Variant: the Next button is never disabled.
NextPageUnguarded ==
    /\ PointerFree
    /\ pageNumber' = pageNumber + 1
    /\ captured' = <<>>
    /\ out' = NULL
    /\ UNCHANGED organizeVars
    /\ UNCHANGED <<env, numPages, pageDims, pdfPassword, tool, annotations, committed, textInput>>
    /\ UNCHANGED <<drawVars, imageVars>>

\* The Next button: disabled={pageNumber >= numPages} (null compares as 0).
NextPage ==
    /\ PointerFree
    /\ ~(pageNumber >= numPages)
    /\ pageNumber' = pageNumber + 1
    /\ captured' = <<>>
    /\ out' = NULL
    /\ UNCHANGED organizeVars
    /\ UNCHANGED <<env, numPages, pageDims, pdfPassword, tool, annotations, committed, textInput>>
    /\ UNCHANGED <<drawVars, imageVars>>

\* The toolbar buttons that call setTool directly.
SetTool(t) ==
    /\ PointerFree
    /\ tool' = t
    /\ captured' = <<>>
    /\ out' = NULL
    /\ UNCHANGED organizeVars
    /\ UNCHANGED <<docVars, annotations, committed, textInput>>
    /\ UNCHANGED <<drawVars, imageVars>>

(***************************************************************************)
(* Image staging.                                                          *)
(***************************************************************************)
MaxImageSize == 200

\* Variant: the cap at 1 is missing, so small images are enlarged.
ScaleFactorUncapped(img) ==
    RMin(RDiv(R(MaxImageSize), R(img.width)), RDiv(R(MaxImageSize), R(img.height)))

\* Math.min(200 / img.width, 200 / img.height, 1)
ScaleFactor(img) ==
    RMin(RMin(RDiv(R(MaxImageSize), R(img.width)),
              RDiv(R(MaxImageSize), R(img.height))), R(1))

\* The record handed to setPendingImage by img.onload.
StagedImage(img) ==
    [file |-> img,
     width |-> RMul(R(img.width), ScaleFactor(img)),
     height |-> RMul(R(img.height), ScaleFactor(img))]

\* triggerImageUpload: open the file dialog and select the image tool.
TriggerImageUpload ==
    /\ PointerFree
    /\ fileDialog' = TRUE
    /\ tool' = "image"
    /\ captured' = <<>>
    /\ out' = NULL
    /\ UNCHANGED organizeVars
    /\ UNCHANGED <<docVars, annotations, committed, textInput, pendingImage, decoding>>
    /\ UNCHANGED drawVars

\* The dialog is dismissed without a file: no change event.
CancelFileDialog ==
    /\ fileDialog
    /\ fileDialog' = FALSE
    /\ KeepCaptured
    /\ out' = NULL
    /\ UNCHANGED organizeVars
    /\ UNCHANGED <<docVars, tool, annotations, committed, textInput, pendingImage, decoding>>
    /\ UNCHANGED drawVars

\* handleImageUpload: a file was picked; decoding starts (img.src = url).
HandleImageUpload(file) ==
    /\ fileDialog
    /\ decoding = NULL
    /\ fileDialog' = FALSE
    /\ decoding' = file
    /\ captured' = <<>>
    /\ out' = NULL
    /\ UNCHANGED organizeVars
    /\ UNCHANGED <<docVars, tool, annotations, committed, textInput, pendingImage>>
    /\ UNCHANGED drawVars

\* img.onload: the decoded image is staged, scaled to fit.
ImgOnload ==
    /\ decoding # NULL
    /\ pendingImage' = StagedImage(decoding)
    /\ decoding' = NULL
    /\ KeepCaptured
    /\ out' = NULL
    /\ UNCHANGED organizeVars
    /\ UNCHANGED <<docVars, tool, annotations, committed, textInput, fileDialog>>
    /\ UNCHANGED drawVars

(***************************************************************************)
(* Pointer gestures on the canvas.                                         *)
(***************************************************************************)
RectThreshold == 5
PenWidth == 2
HighlightWidth == 20
TextSize == 16

\* Variant: the text tool starts a gesture too.
DrawingToolsWithText == {"pen", "highlight", "rect", "text"}

DrawingTools == {"pen", "highlight", "rect"}

\* setCurrentRect({ x, y, width: 0, height: 0, startX, startY })
StartRect(pt) ==
    [x |-> pt[1], y |-> pt[2], width |-> 0, height |-> 0,
     startX |-> pt[1], startY |-> pt[2]]

\* prev => ({ ...prev, width: offsetX - prev.startX, height: offsetY - prev.startY })
DragRect(prev, pt) ==
    [prev EXCEPT !.width = pt[1] - prev.startX, !.height = pt[2] - prev.startY]

\* Variant: the new sample is put in front of the captured ones.
ExtendPathFront(prev, pt) == <<pt>> \o prev

\* [...prev, { x: offsetX, y: offsetY }]
ExtendPath(prev, pt) == Append(prev, pt)

\* Variant: both extents must exceed the threshold.
RectCommitsBoth(rect) ==
    rect # NULL /\ (Abs(rect.width) > RectThreshold /\ Abs(rect.height) > RectThreshold)

\* Math.abs(currentRect.width) > 5 || Math.abs(currentRect.height) > 5
RectCommits(rect) ==
    rect # NULL /\ (Abs(rect.width) > RectThreshold \/ Abs(rect.height) > RectThreshold)

RectAnn(rect) ==
    [type |-> "rect", x |-> rect.x, y |-> rect.y,
     width |-> rect.width, height |-> rect.height, color |-> "blue"]

PathColor(t) == IF t = "highlight" THEN "rgba(255, 255, 0, 0.5)" ELSE "red"
PathWidth(t) == IF t = "highlight" THEN HighlightWidth ELSE PenWidth

\* Variant: the stroke is committed without its first sample.
PathAnnTail(t, points) ==
    [type |-> "path", points |-> Tail(points), color |-> PathColor(t), width |-> PathWidth(t)]

PathAnn(t, points) ==
    [type |-> "path", points |-> points, color |-> PathColor(t), width |-> PathWidth(t)]

\* startDrawing (onMouseDown).
StartDrawing(pt) ==
    /\ ~isDrawing /\ ~fileDialog
    /\ Room
    /\ IF tool \notin DrawingTools
       THEN UNCHANGED drawVars /\ KeepCaptured
       ELSE /\ isDrawing' = TRUE
            /\ captured' = <<pt>>
            /\ IF tool = "rect"
               THEN /\ currentRect' = StartRect(pt)
                    /\ UNCHANGED currentPath
               ELSE /\ currentPath' = <<pt>>
                    /\ UNCHANGED currentRect
    /\ out' = NULL
    /\ UNCHANGED organizeVars
    /\ UNCHANGED <<docVars, tool, annotations, committed, textInput>>
    /\ UNCHANGED imageVars

\* draw (onMouseMove).
Draw(pt) ==
    /\ ~fileDialog
    /\ IF ~isDrawing
       THEN UNCHANGED drawVars /\ KeepCaptured
       ELSE IF tool = "rect"
            THEN /\ currentRect' = DragRect(currentRect, pt)
                 /\ captured' = <<captured[1], pt>>
                 /\ UNCHANGED <<currentPath, isDrawing>>
            ELSE /\ Len(currentPath) < env.maxPoints
                 /\ currentPath' = ExtendPath(currentPath, pt)
                 /\ captured' = Append(captured, pt)
                 /\ UNCHANGED <<currentRect, isDrawing>>
    /\ out' = NULL
    /\ UNCHANGED organizeVars
    /\ UNCHANGED <<docVars, tool, annotations, committed, textInput>>
    /\ UNCHANGED imageVars

\* stopDrawing (onMouseUp and onMouseLeave).
StopDrawing ==
    /\ ~fileDialog
    /\ IF ~isDrawing
       THEN UNCHANGED <<drawVars, annotations>> /\ KeepCaptured
       ELSE /\ isDrawing' = FALSE
            /\ captured' = <<>>
            /\ IF tool = "rect"
               THEN /\ annotations' =
                        IF RectCommits(currentRect)
                        THEN AddAnnotation(annotations, pageNumber, RectAnn(currentRect))
                        ELSE annotations
                    /\ currentRect' = NULL
                    /\ UNCHANGED currentPath
               ELSE /\ annotations' =
                        AddAnnotation(annotations, pageNumber, PathAnn(tool, currentPath))
                    /\ currentPath' = <<>>
                    /\ UNCHANGED currentRect
    /\ Recorded
    /\ out' = NULL
    /\ UNCHANGED organizeVars
    /\ UNCHANGED <<docVars, tool, textInput>>
    /\ UNCHANGED imageVars

(***************************************************************************)
(* Clicks on the canvas, text and note input.                              *)
(***************************************************************************)
\* Variant: the input is always opened for the first page.
OpenTextInputFirstPage(pt, page, t) ==
    [x |-> pt[1], y |-> pt[2], value |-> <<>>, page |-> 1, type |-> t]

\* setTextInput({ x, y, value: '', page: pageNumber, type: tool })
OpenTextInput(pt, page, t) ==
    [x |-> pt[1], y |-> pt[2], value |-> <<>>, page |-> page, type |-> t]

\* Variant: the image is placed at its natural size, not the staged one.
ImageAnnNatural(pt, pending) ==
    [type |-> "image", x |-> pt[1], y |-> pt[2],
     width |-> R(pending.file.width), height |-> R(pending.file.height),
     file |-> pending.file]

ImageAnn(pt, pending) ==
    [type |-> "image", x |-> pt[1], y |-> pt[2],
     width |-> pending.width, height |-> pending.height, file |-> pending.file]

\* handleCanvasClick (onClick).
HandleCanvasClick(pt) ==
    /\ PointerFree
    /\ Room
    /\ captured' = <<pt>>
    /\ IF tool \in {"text", "note"}
       THEN /\ textInput' = OpenTextInput(pt, pageNumber, tool)
            /\ UNCHANGED <<annotations, pendingImage, tool>>
       ELSE IF tool = "image" /\ pendingImage # NULL
            THEN /\ annotations' =
                     AddAnnotation(annotations, pageNumber, ImageAnn(pt, pendingImage))
                 /\ pendingImage' = NULL
                 /\ tool' = "view"
                 /\ UNCHANGED textInput
            ELSE UNCHANGED <<annotations, pendingImage, tool, textInput>>
    /\ Recorded
    /\ out' = NULL
    /\ UNCHANGED organizeVars
    /\ UNCHANGED <<docVars, fileDialog, decoding>>
    /\ UNCHANGED drawVars

\* String.prototype.trim on a sequence of characters.
RECURSIVE TrimLeft(_)
TrimLeft(s) == IF s # <<>> /\ Head(s) = " " THEN TrimLeft(Tail(s)) ELSE s

RECURSIVE TrimRight(_)
TrimRight(s) ==
    IF s # <<>> /\ s[Len(s)] = " " THEN TrimRight(SubSeq(s, 1, Len(s) - 1)) ELSE s

Trim(s) == TrimRight(TrimLeft(s))

\* Variant: the value is tested without trimming.
TextCommitsUntrimmed(ti) == ti # NULL /\ ti.value # <<>>

\* textInput && textInput.value.trim() !== ''
TextCommits(ti) == ti # NULL /\ Trim(ti.value) # <<>>

\* Variant: the annotation is always of type text.
TextAnnAlwaysText(ti) ==
    [type |-> "text", text |-> ti.value, x |-> ti.x, y |-> ti.y, size |-> TextSize]

TextAnn(ti) ==
    [type |-> ti.type, text |-> ti.value, x |-> ti.x, y |-> ti.y, size |-> TextSize]

\* The textarea's onChange.
SetTextValue(v) ==
    /\ textInput # NULL
    /\ v # textInput.value
    /\ textInput' = [textInput EXCEPT !.value = v]
    /\ KeepCaptured
    /\ out' = NULL
    /\ UNCHANGED organizeVars
    /\ UNCHANGED <<docVars, tool, annotations, committed>>
    /\ UNCHANGED <<drawVars, imageVars>>

\* confirmText (the textarea's onBlur).
ConfirmText ==
    /\ textInput # NULL
    /\ annotations' =
         IF TextCommits(textInput)
         THEN AddAnnotation(annotations, textInput.page, TextAnn(textInput))
         ELSE annotations
    /\ Recorded
    /\ textInput' = NULL
    /\ tool' = "view"
    /\ captured' = <<>>
    /\ out' = NULL
    /\ UNCHANGED organizeVars
    /\ UNCHANGED docVars
    /\ UNCHANGED <<drawVars, imageVars>>

\* What prompt() can return: null when cancelled, else the string typed (which may
\* be empty).
PromptAnswers ==
    {[cancelled |-> TRUE, text |-> ""]}
        \cup {[cancelled |-> FALSE, text |-> t] : t \in env.passwords}

\* Variant: a cancelled prompt clears the password.
NewPasswordCancelClears(answer, old) == IF answer.cancelled THEN "" ELSE answer.text

\* if (newPass !== null) setPdfPassword(newPass)
NewPassword(answer, old) == IF ~answer.cancelled THEN answer.text ELSE old

\* handleSetPassword (the lock button).
HandleSetPassword(answer) ==
    /\ PointerFree
    /\ pdfPassword' = NewPassword(answer, pdfPassword)
    /\ captured' = <<>>
    /\ out' = NULL
    /\ UNCHANGED organizeVars
    /\ UNCHANGED <<env, numPages, pageNumber, pageDims, tool, annotations, committed, textInput>>
    /\ UNCHANGED <<drawVars, imageVars>>

(***************************************************************************)
(* handleSave: replay of the annotation store into drawing operations.     *)
(* A drawing operation carries the page and the index of the annotation    *)
(* (in its page's list) it was emitted for.                                *)
(***************************************************************************)
NoteWidth == 150
NoteHeight == 100
RectBorder == 3
NoteTextSize == 14
NotePadX == 10
NotePadY == 20

\* String.prototype.includes on the two colour strings the editor stores.
ColorIncludes(color, needle) ==
    /\ color = "rgba(255, 255, 0, 0.5)"
    /\ needle \in {"255, 255, 0", "0, 0.5"}

\* pageDims[pageNum] || { width: pdfPageWidth, height: pdfPageHeight }
RenderedDim(dims, pageNum) ==
    IF pageNum \in DOMAIN dims THEN dims[pageNum] ELSE PageSize(pageNum)

\* Variant: the horizontal scale is taken from the first page's render size.
ScaleXFirstPage(dims, pageNum) ==
    RDiv(R(PageSize(pageNum).width), R(RenderedDim(dims, 1).width))

\* scaleX = pdfPageWidth / renderedDim.width
ScaleX(dims, pageNum) ==
    RDiv(R(PageSize(pageNum).width), R(RenderedDim(dims, pageNum).width))

\* scaleY = pdfPageHeight / renderedDim.height
ScaleY(dims, pageNum) ==
    RDiv(R(PageSize(pageNum).height), R(RenderedDim(dims, pageNum).height))

\* Variant: the vertical scale is taken from the horizontal one.
ToPdfPointOneScale(p, sx, sy, ph) ==
    <<RMul(R(p[1]), sx), RSub(R(ph), RMul(R(p[2]), sx))>>

\* { x: p.x * scaleX, y: pdfPageHeight - (p.y * scaleY) }
ToPdfPoint(p, sx, sy, ph) ==
    <<RMul(R(p[1]), sx), RSub(R(ph), RMul(R(p[2]), sy))>>

\* Variant: the loop stops one segment early.
PathSegmentsShort(n) == 1 .. (n - 2)

\* The loop  for (i = 0; i < pathData.length - 1; i++) page.drawLine(...)
PathSegments(n) == 1 .. (n - 1)

ReplayPath(ann, page, idx, sx, sy, ph) ==
    LET color == IF ColorIncludes(ann.color, "255, 255, 0")
                 THEN "rgb(1, 1, 0)" ELSE "rgb(1, 0, 0)"
        pathData == [i \in 1 .. Len(ann.points) |-> ToPdfPoint(ann.points[i], sx, sy, ph)]
        isHighlight == \/ ColorIncludes(ann.color, "255, 255, 0")
                       \/ ColorIncludes(ann.color, "0, 0.5")
        opacityVal == IF isHighlight THEN <<1, 2>> ELSE R(1)
        scaledWidth == RMul(R(ann.width), sx)
    IN  IF Len(pathData) > 1
        THEN [i \in PathSegments(Len(pathData)) |->
                [op |-> "drawLine", page |-> page, ann |-> idx,
                 start |-> pathData[i], end |-> pathData[i + 1],
                 thickness |-> scaledWidth, color |-> color, opacity |-> opacityVal]]
        ELSE <<>>

ReplayText(ann, page, idx, sx, sy, ph) ==
    <<[op |-> "drawText", page |-> page, ann |-> idx, text |-> ann.text,
       x |-> RMul(R(ann.x), sx), y |-> RSub(R(ph), RMul(R(ann.y), sy)),
       size |-> RMul(R(ann.size), sy), color |-> "rgb(0, 0, 0)"]>>

\* Variant: the extents are made positive but the anchor is not moved.
NormalizeRectNoShift(ann) ==
    [x |-> ann.x, y |-> ann.y, width |-> Abs(ann.width), height |-> Abs(ann.height)]

\* if (cW < 0) { cX += cW; cW = Math.abs(cW); }  if (cH < 0) { cY += cH; cH = Math.abs(cH); }
NormalizeRect(ann) ==
    [x |-> IF ann.width < 0 THEN ann.x + ann.width ELSE ann.x,
     y |-> IF ann.height < 0 THEN ann.y + ann.height ELSE ann.y,
     width |-> IF ann.width < 0 THEN Abs(ann.width) ELSE ann.width,
     height |-> IF ann.height < 0 THEN Abs(ann.height) ELSE ann.height]

ReplayRect(ann, page, idx, sx, sy, ph) ==
    LET c == NormalizeRect(ann)
    IN  <<[op |-> "drawRectangle", page |-> page, ann |-> idx, box |-> c,
           x |-> RMul(R(c.x), sx),
           y |-> RSub(R(ph), RMul(R(c.y + c.height), sy)),
           width |-> RMul(R(c.width), sx),
           height |-> RMul(R(c.height), sy),
           borderColor |-> "rgb(0, 0, 1)", borderWidth |-> RMul(R(RectBorder), sx)]>>

\* embedJpg for image/jpeg and image/jpg, embedPng for everything else.
EmbedKind(file) ==
    IF file.mime = "image/jpeg" \/ file.mime = "image/jpg" THEN "embedJpg" ELSE "embedPng"

\* Variant: the image is anchored at its top edge.
ReplayImageTopAnchor(ann, page, idx, sx, sy, ph) ==
    <<[op |-> "drawImage", page |-> page, ann |-> idx,
       embed |-> EmbedKind(ann.file), file |-> ann.file.name,
       x |-> RMul(R(ann.x), sx),
       y |-> RSub(R(ph), RMul(R(ann.y), sy)),
       width |-> RMul(ann.width, sx), height |-> RMul(ann.height, sy)]>>

ReplayImage(ann, page, idx, sx, sy, ph) ==
    LET pdfW == RMul(ann.width, sx)
        pdfH == RMul(ann.height, sy)
    IN  <<[op |-> "drawImage", page |-> page, ann |-> idx,
           embed |-> EmbedKind(ann.file), file |-> ann.file.name,
           x |-> RMul(R(ann.x), sx),
           y |-> RSub(RSub(R(ph), RMul(R(ann.y), sy)), pdfH),
           width |-> pdfW, height |-> pdfH]>>

ReplayNote(ann, page, idx, sx, sy, ph) ==
    LET noteW == RMul(R(NoteWidth), sx)
        noteH == RMul(R(NoteHeight), sy)
        pdfX == RMul(R(ann.x), sx)
        pdfY == RSub(RSub(R(ph), RMul(R(ann.y), sy)), noteH)
    IN  <<[op |-> "drawRectangle", page |-> page, ann |-> idx,
           x |-> pdfX, y |-> pdfY, width |-> noteW, height |-> noteH,
           color |-> "rgb(1, 0.92, 0.23)"],
          [op |-> "drawText", page |-> page, ann |-> idx, text |-> ann.text,
           x |-> RAdd(pdfX, RMul(R(NotePadX), sx)),
           y |-> RSub(RAdd(pdfY, noteH), RMul(R(NotePadY), sy)),
           size |-> RMul(R(NoteTextSize), sy), color |-> "rgb(0, 0, 0)"]>>

\* The body of  for (const ann of pageAnns)  for one annotation.
ReplayAnnotation(ann, page, idx, sx, sy, ph) ==
    CASE ann.type = "path"  -> ReplayPath(ann, page, idx, sx, sy, ph)
      [] ann.type = "text"  -> ReplayText(ann, page, idx, sx, sy, ph)
      [] ann.type = "rect"  -> ReplayRect(ann, page, idx, sx, sy, ph)
      [] ann.type = "image" -> ReplayImage(ann, page, idx, sx, sy, ph)
      [] ann.type = "note"  -> ReplayNote(ann, page, idx, sx, sy, ph)
      [] OTHER -> <<>>

\* addLog(msg) as an event of the save; msg is the template's parts in order, and the
\* entry is stamped when the log is built.
LogEvent(msg) == [op |-> "addLog", msg |-> msg]

\* drawText encodes the text with the standard font and throws on a character
\* WinAnsi has no code for.
Encodable(text) == \A i \in 1 .. Len(text) : text[i] # Unencodable

\* embedJpg / embedPng throw on bytes of any other format.
Embeddable(file) == file.mime \in {"image/jpeg", "image/jpg", "image/png"}

\* The annotation's branch throws at one of its calls.
Throws(ann) ==
    \/ ann.type \in {"text", "note"} /\ ~Encodable(ann.text)
    \/ ann.type = "image" /\ ~Embeddable(ann.file)

\* How many of the branch's draw calls have returned when it throws: the embed call
\* precedes drawImage, a note's background precedes its text.
CallsBeforeThrow(ann) == IF ann.type = "note" THEN 1 ELSE 0

\* innerErr.message
ErrorMessage(ann) ==
    IF ann.type = "image" THEN "The input is not a PNG file!"
    ELSE "WinAnsi cannot encode " \o Unencodable

\* The addLog calls of the path branch, which precede its drawLine calls.
PathLogs(ann, sx) ==
    IF ann.type # "path" THEN <<>>
    ELSE LET isHighlight == \/ ColorIncludes(ann.color, "255, 255, 0")
                            \/ ColorIncludes(ann.color, "0, 0.5")
         IN  <<LogEvent(IF ColorIncludes(ann.color, "255, 255, 0")
                        THEN <<"DEBUG: Detected Highlight Path.">>
                        ELSE <<"DEBUG: Detected Pen Path.">>)>>
             \o (IF Len(ann.points) > 1
                 THEN <<LogEvent(<<"Drawing path: highlight=", isHighlight, ", opacity=",
                                   IF isHighlight THEN <<1, 2>> ELSE R(1),
                                   ", width=", RMul(R(ann.width), sx)>>)>>
                 ELSE <<>>)

\* try { ...branch of ann... } catch (innerErr) { addLog(...) }: the calls that
\* returned stay in the document, the rest of the branch is skipped.
AnnotationEvents(ann, page, idx, sx, sy, ph) ==
    LET calls == ReplayAnnotation(ann, page, idx, sx, sy, ph)
    IN  IF Throws(ann)
        THEN PathLogs(ann, sx) \o SubSeq(calls, 1, CallsBeforeThrow(ann))
             \o <<LogEvent(<<"Error processing annotation: ", ErrorMessage(ann)>>)>>
        ELSE PathLogs(ann, sx) \o calls

\* Variant: the try/catch encloses the loop, so a throw ends the page's replay.
RECURSIVE ReplayFromAbort(_, _, _, _)
ReplayFromAbort(pageAnns, page, idx, dims) ==
    IF idx > Len(pageAnns) THEN <<>>
    ELSE AnnotationEvents(pageAnns[idx], page, idx, ScaleX(dims, page),
                          ScaleY(dims, page), PageSize(page).height)
         \o (IF Throws(pageAnns[idx]) THEN <<>>
             ELSE ReplayFromAbort(pageAnns, page, idx + 1, dims))

\* for (const ann of pageAnns) { try { ... } catch (innerErr) { ... } }
RECURSIVE ReplayFrom(_, _, _, _)
ReplayFrom(pageAnns, page, idx, dims) ==
    IF idx > Len(pageAnns) THEN <<>>
    ELSE AnnotationEvents(pageAnns[idx], page, idx, ScaleX(dims, page),
                          ScaleY(dims, page), PageSize(page).height)
         \o ReplayFrom(pageAnns, page, idx + 1, dims)

\* pageIndex >= 0 && pageIndex < pages.length
PageInRange(pageNum) == pageNum - 1 >= 0 /\ pageNum - 1 < NumDocPages

\* Variant: the keys come out largest first.
RECURSIVE KeysFromDescending(_, _)
KeysFromDescending(keys, lo) ==
    IF keys = {} THEN <<>>
    ELSE LET k == CHOOSE q \in keys : \A r \in keys : q >= r
         IN  <<k>> \o KeysFromDescending(keys \ {k}, k)

\* Object.keys(annotations): integer-like keys come out in ascending numeric order.
RECURSIVE KeysFrom(_, _)
KeysFrom(keys, lo) ==
    IF keys = {} THEN <<>>
    ELSE LET k == CHOOSE q \in keys : \A r \in keys : q <= r
         IN  <<k>> \o KeysFrom(keys \ {k}, k)

ObjectKeys(anns) == KeysFrom(DOMAIN anns, 0)

RECURSIVE ReplayPages(_, _, _)
ReplayPages(keys, anns, dims) ==
    IF keys = <<>> THEN <<>>
    ELSE (IF PageInRange(Head(keys))
          THEN ReplayFrom(anns[Head(keys)], Head(keys), 1, dims)
          ELSE <<>>)
         \o ReplayPages(Tail(keys), anns, dims)

\* The events of the annotation replay of one save, in the order they happen.
ReplayAll(anns, dims) == ReplayPages(ObjectKeys(anns), anns, dims)

\* The file prop of the editor.
FileUrl == "blob:source.pdf"
FileName == "source.pdf"

\* pdfDoc.encrypt({ userPassword, ownerPassword, permissions })
EncryptCall(pw) ==
    [op |-> "encrypt", userPassword |-> pw, ownerPassword |-> pw,
     permissions |-> [printing |-> "highResolution", modifying |-> FALSE,
                      copying |-> FALSE, annotating |-> FALSE, fillingForms |-> FALSE,
                      contentAccessibility |-> FALSE, documentAssembly |-> FALSE]]

\* The catch block of handleSave: the error is logged, the log is offered as
\* save_error_log.txt and the user is alerted.
SaveFailed(events, message) ==
    events \o <<LogEvent(<<"CRITICAL ERROR: ", message>>),
                [op |-> "download", name |-> "save_error_log.txt"],
                [op |-> "alert", text |-> "Failed to save. Check logs."]>>

\* Variant: the encryption step does not look at the password.
PasswordSetAlways(pw) == TRUE

\* if (pdfPassword): a string is truthy unless it is empty.
PasswordSet(pw) == pw # ""

\* The try block of handleSave up to the replay: fetch, load, optional encryption.
\* done is FALSE when a stage threw and the catch block has run.
SaveOpening(pw, fault) ==
    LET started == <<LogEvent(<<"Starting save process...">>),
                     LogEvent(<<"Fetching original file from: ", FileUrl>>)>>
        loading == started \o <<[op |-> "fetch", url |-> FileUrl],
                                LogEvent(<<"Loading PDF into pdf-lib...">>)>>
        parsed == loading \o <<[op |-> "load"]>>
        encrypting == parsed \o <<LogEvent(<<"Encrypting PDF with password...">>)>>
    IN  IF fault = "fetch"
        THEN [done |-> FALSE, events |-> SaveFailed(started, "Failed to fetch")]
        ELSE IF fault = "load"
        THEN [done |-> FALSE, events |-> SaveFailed(loading, "Failed to parse PDF document")]
        ELSE IF ~PasswordSet(pw) THEN [done |-> TRUE, events |-> parsed]
        ELSE IF fault = "encrypt"
        THEN [done |-> FALSE,
              events |-> SaveFailed(encrypting, "pdfDoc.encrypt is not a function")]
        ELSE [done |-> TRUE, events |-> encrypting \o <<EncryptCall(pw)>>]

\* The events of one run of handleSave on the state its closure captured.
SaveEvents(anns, dims, pw, fault) ==
    LET opening == SaveOpening(pw, fault)
        replayed == opening.events \o <<LogEvent(<<"Applying annotations...">>)>>
                    \o ReplayAll(anns, dims) \o <<LogEvent(<<"Saving modified PDF...">>)>>
    IN  IF ~opening.done THEN opening.events
        ELSE IF fault = "serialize" THEN SaveFailed(replayed, "Failed to serialize")
        ELSE replayed \o <<[op |-> "save"], [op |-> "download", name |-> "edited_" \o FileName]>>

\* new Date().toISOString() at the k-th addLog of a save: the clock does not go back.
IsoString(k) == [iso |-> k]

\* Variant: the entry is the bare message.
AddLogBare(logs, msg) == Append(logs, <<msg>>)

\* addLog: logs.push(`${new Date().toISOString()}: ${msg}`)
AddLog(logs, msg) == Append(logs, <<IsoString(Len(logs) + 1), ": ", msg>>)

\* The logs array after the events.
RECURSIVE LogsOf(_)
LogsOf(events) ==
    IF events = <<>> THEN <<>>
    ELSE LET last == events[Len(events)]
             before == LogsOf(SubSeq(events, 1, Len(events) - 1))
         IN  IF last.op = "addLog" THEN AddLog(before, last.msg) ELSE before

DrawOps == {"drawLine", "drawText", "drawRectangle", "drawImage"}

\* Variant: the run draws on top of the document the previous run produced.
SaveResultStacked(events, fault) ==
    LET offered == SelectSeq(events, LAMBDA e : e.op = "download")
        saved == \E i \in 1 .. Len(events) : events[i].op = "save"
        drawn == SelectSeq(events, LAMBDA e : e.op \in DrawOps)
        base == IF out # NULL /\ out.kind = "download" THEN out.ops ELSE <<>>
    IN  [kind |-> IF saved THEN "download" ELSE "error-log",
         name |-> offered[1].name,
         ops |-> IF saved THEN base \o drawn ELSE <<>>,
         logs |-> LogsOf(events),
         alerts |-> SelectSeq(events, LAMBDA e : e.op = "alert"),
         events |-> events, fault |-> fault]

\* What a run of handleSave hands to the user: the edited document with the draw
\* calls that went into it, or the log file.  The record also keeps the events of the
\* run and the stage that threw.
SaveResult(events, fault) ==
    LET offered == SelectSeq(events, LAMBDA e : e.op = "download")
        saved == \E i \in 1 .. Len(events) : events[i].op = "save"
    IN  [kind |-> IF saved THEN "download" ELSE "error-log",
         name |-> offered[1].name,
         ops |-> IF saved THEN SelectSeq(events, LAMBDA e : e.op \in DrawOps) ELSE <<>>,
         logs |-> LogsOf(events),
         alerts |-> SelectSeq(events, LAMBDA e : e.op = "alert"),
         events |-> events, fault |-> fault]

\* handleSave (the SAVE button) for a file of type pdf.  fault names the stage among
\* fetch, PDFDocument.load, pdfDoc.encrypt and pdfDoc.save that throws in this run
\* ("none": each returns).  The handler reads the state its closure captured at the
\* click and sets no state of the component, so its run is one step here.
HandleSave(fault) ==
    /\ PointerFree
    /\ out' = SaveResult(SaveEvents(annotations, pageDims, pdfPassword, fault), fault)
    /\ UNCHANGED organizeVars
    /\ captured' = <<>>
    /\ UNCHANGED <<docVars, tool, annotations, committed, textInput>>
    /\ UNCHANGED <<drawVars, imageVars>>

(***************************************************************************)
(* The editor.                                                             *)
(***************************************************************************)
Next ==
    \/ OnDocumentLoadSuccess
    \/ OnPageLoadSuccess
    \/ PrevPage
    \/ NextPage
    \/ \E t \in Tools \ {"image"} : SetTool(t)
    \/ TriggerImageUpload
    \/ CancelFileDialog
    \/ \E f \in env.files : HandleImageUpload(f)
    \/ ImgOnload
    \/ \E pt \in env.points : StartDrawing(pt)
    \/ \E pt \in env.points : Draw(pt)
    \/ StopDrawing
    \/ \E pt \in env.points : HandleCanvasClick(pt)
    \/ \E v \in env.texts : SetTextValue(v)
    \/ ConfirmText
    \/ \E answer \in PromptAnswers : HandleSetPassword(answer)
    \/ \E fault \in env.faults \cup {"none"} : HandleSave(fault)

Spec == Init /\ [][Next]_vars

(***************************************************************************)
(* Image staging on its own: the files range over ImageDims x ImageDims.   *)
(***************************************************************************)
InitImage == mode = "editor" /\ Mounted(ImageSession)

NextImage ==
    \/ TriggerImageUpload
    \/ CancelFileDialog
    \/ \E f \in env.files : HandleImageUpload(f)
    \/ ImgOnload

SpecImage == InitImage /\ [][NextImage]_vars

(***************************************************************************)
(* The page organizer (OrganizeScreen) and the operations in flight.       *)
(***************************************************************************)
MaxEdits == 2       \* structure edits begun on one picked document
MaxFlights == 2     \* runs of handleSave in flight at once

\* The state of PdfEditor apart from out.
editorVars == <<docVars, tool, annotations, committed, textInput, drawVars, imageVars,
                captured>>

\* A page of a document in memory: which page of the picked file it is, its
\* /Rotate angle, its media box size and its crop box.
OrgPage(id, width, height) ==
    [id |-> id, rotation |-> 0, width |-> width, height |-> height, crop |-> NULL]

\* The files the user can pick in the organizer.  The second page of the long one
\* is stored turned and its third page already has a crop box.
OrgPdf == [name |-> "doc.pdf", mime |-> "application/pdf",
           pages |-> <<OrgPage(1, 300, 400), OrgPage(2, 400, 300)>>]
OrgLongPdf ==
    [name |-> "long.pdf", mime |-> "application/pdf",
     pages |-> <<OrgPage(1, 300, 400),
                 [OrgPage(2, 400, 300) EXCEPT !.rotation = 90],
                 [OrgPage(3, 200, 200) EXCEPT
                     !.crop = [x |-> R(10), y |-> R(10), width |-> R(100),
                               height |-> R(100)]]>>]
OrgPng == [name |-> "scan.png", mime |-> "image/png", pages |-> <<>>]

\* The sessions of the runs with operations in flight: the screen that is mounted
\* and what the user does there.  orgFiles are the files picked; picks, drags and
\* crops the thumbnails the user selects, drags and opens in the crop modal;
\* cropValues the percentages typed into the inputs cropFields; directions the
\* rotate buttons used; confirms the answers to confirm().
SaveSession ==
    [screen |-> "editor", passwords |-> {"pw"}, faults |-> {"serialize"},
     orgFiles |-> {}, picks |-> {}, drags |-> {}, crops |-> {}, cropFields |-> {},
     cropValues |-> {}, directions |-> {}, confirms |-> {}]
SelectSession ==
    [screen |-> "organize", passwords |-> {}, faults |-> {},
     orgFiles |-> {OrgPdf, OrgPng}, picks |-> {0, 1}, drags |-> {}, crops |-> {},
     cropFields |-> {}, cropValues |-> {}, directions |-> {"left", "right"},
     confirms |-> BOOLEAN]
DragSession ==
    [screen |-> "organize", passwords |-> {}, faults |-> {},
     orgFiles |-> {OrgLongPdf}, picks |-> {0}, drags |-> {0, 1, 2}, crops |-> {},
     cropFields |-> {}, cropValues |-> {}, directions |-> {"right"}, confirms |-> {}]
CropSession ==
    [screen |-> "organize", passwords |-> {}, faults |-> {},
     orgFiles |-> {OrgPdf}, picks |-> {1}, drags |-> {}, crops |-> {0, 1},
     cropFields |-> {"x", "y"}, cropValues |-> {150}, directions |-> {},
     confirms |-> {TRUE}]
OpsSessions == {SaveSession, SelectSession, DragSession, CropSession}

\* The page that save() puts into a document that has none (A4, whole points).
BlankPage == OrgPage(0, 595, 842)

RemoveAt(s, i) == SubSeq(s, 1, i - 1) \o SubSeq(s, i + 1, Len(s))
InsertAt(s, i, x) == SubSeq(s, 1, i - 1) \o <<x>> \o SubSeq(s, i, Len(s))

\* displayPdf: a new object URL and the new bytes; the load error is cleared.
DisplayPdf(bytes) ==
    /\ pdfUrl' = pdfUrl + 1
    /\ pdfBytes' = bytes
    /\ loadError' = NULL

\* Where the pointer can act: the busy overlay and the crop modal are fixed layers
\* over the whole screen, and a drag holds the pointer until the drop.
OverlayFree == mode = "organize" /\ ~isProcessing /\ ~dragging
ScreenFree == OverlayFree /\ cropMode = NoIndex
ModalOpen == OverlayFree /\ cropMode # NoIndex
\* Variant: the thumbnails of the previous document stay in reach while the new one loads.
GridShownStale == ScreenFree /\ loadError = NULL /\ pdfUrl # 0

\* The grid shows pageCount thumbnails once react-pdf has loaded the document.
GridShown == ScreenFree /\ loadError = NULL /\ pdfUrl # 0 /\ loadedUrl = pdfUrl
GridIndices == 0 .. pageCount - 1

\* handleFileChange up to the await: a file that is not a PDF is turned away.
HandleFileChange(f) ==
    /\ ScreenFree
    /\ orgFile = NULL
    /\ IF f.mime # "application/pdf"
       THEN /\ out' = [kind |-> "alert", fault |-> "none",
                        alerts |-> <<"Only PDF files are supported.">>]
            /\ UNCHANGED <<orgFile, reading>>
       ELSE /\ orgFile' = f
            /\ reading' = f
            /\ out' = NULL
    /\ UNCHANGED <<mode, pdfBytes, pdfUrl, pageCount, selectedPages, cropMode, isProcessing,
                   loadError, cropRect, draggedIndex, loadedUrl, dragging, flights>>
    /\ UNCHANGED <<done, editorVars>>

\* handleFileChange after the await: arrayBuffer() resolved, or it rejected.
FileRead(rejected) ==
    /\ mode = "organize"
    /\ reading # NULL
    /\ IF rejected
       THEN /\ loadError' = [message |-> "Failed to read file: "]
            /\ UNCHANGED <<pdfBytes, pdfUrl>>
       ELSE DisplayPdf(reading.pages)
    /\ reading' = NULL
    /\ out' = NULL
    /\ UNCHANGED <<mode, orgFile, pageCount, selectedPages, cropMode, isProcessing,
                   cropRect, draggedIndex, loadedUrl, dragging, flights>>
    /\ UNCHANGED <<done, editorVars>>

\* <Document file={pdfUrl}> is rendered and has not yet reported on this URL.
DocumentLoading == mode = "organize" /\ loadError = NULL /\ pdfUrl # 0 /\ loadedUrl # pdfUrl

\* handleDocumentLoadSuccess({ numPages }).
HandleDocumentLoadSuccess ==
    /\ DocumentLoading
    /\ pageCount' = Len(pdfBytes)
    /\ loadError' = NULL
    /\ loadedUrl' = pdfUrl
    /\ out' = NULL
    /\ UNCHANGED <<mode, orgFile, pdfBytes, pdfUrl, selectedPages, cropMode, isProcessing,
                   cropRect, draggedIndex, reading, dragging, flights>>
    /\ UNCHANGED <<done, editorVars>>

\* handleDocumentLoadError(error).
HandleDocumentLoadError ==
    /\ DocumentLoading
    /\ loadError' = [message |-> "Failed to load PDF: "]
    /\ loadedUrl' = pdfUrl
    /\ out' = NULL
    /\ UNCHANGED <<mode, orgFile, pdfBytes, pdfUrl, pageCount, selectedPages, cropMode,
                   isProcessing, cropRect, draggedIndex, reading, dragging, flights>>
    /\ UNCHANGED <<done, editorVars>>

\* toggleSelection(index).
ToggleSelection(index) ==
    /\ GridShown
    /\ index \in GridIndices
    /\ selectedPages' = IF index \in selectedPages THEN selectedPages \ {index}
                        ELSE selectedPages \cup {index}
    /\ out' = NULL
    /\ UNCHANGED <<mode, orgFile, pdfBytes, pdfUrl, pageCount, cropMode, isProcessing,
                   loadError, cropRect, draggedIndex, reading, loadedUrl, dragging, flights>>
    /\ UNCHANGED <<done, editorVars>>

\* handleDragStart(e, index).
HandleDragStart(index) ==
    /\ GridShown
    /\ index \in GridIndices
    /\ draggedIndex' = index
    /\ dragging' = TRUE
    /\ out' = NULL
    /\ UNCHANGED <<mode, orgFile, pdfBytes, pdfUrl, pageCount, selectedPages, cropMode,
                   isProcessing, loadError, cropRect, reading, loadedUrl, flights>>
    /\ UNCHANGED <<done, editorVars>>

\* The drag ends outside every thumbnail: no handler runs.
DragAbandoned ==
    /\ mode = "organize"
    /\ dragging
    /\ dragging' = FALSE
    /\ out' = NULL
    /\ UNCHANGED <<mode, orgFile, pdfBytes, pdfUrl, pageCount, selectedPages, cropMode,
                   isProcessing, loadError, cropRect, draggedIndex, reading, loadedUrl,
                   flights>>
    /\ UNCHANGED <<done, editorVars>>

\* An operation of updatePdf in flight: what it is and the bytes and the selection
\* its closure holds.
Flight(kind, args) ==
    [kind |-> kind, base |-> pdfBytes, selected |-> selectedPages, args |-> args]

\* updatePdf up to its first await: nothing without bytes, else the busy flag goes up.
BeginUpdate(kind, args) ==
    IF pdfBytes = <<>>
    THEN UNCHANGED <<isProcessing, flights>>
    ELSE /\ isProcessing' = TRUE
         /\ flights' = Append(flights, Flight(kind, args))

\* Edits are counted by the object URLs made so far.
EditsLeft == pdfUrl <= MaxEdits

\* handleDrop(e, dropIndex) up to the await inside updatePdf.
HandleDrop(dropIndex) ==
    /\ mode = "organize"
    /\ dragging
    /\ dropIndex \in GridIndices
    /\ EditsLeft
    /\ dragging' = FALSE
    /\ IF draggedIndex = NoIndex \/ draggedIndex = dropIndex
       THEN UNCHANGED <<isProcessing, flights>>
       ELSE BeginUpdate("reorder", [from |-> draggedIndex, to |-> dropIndex])
    /\ out' = NULL
    /\ UNCHANGED <<mode, orgFile, pdfBytes, pdfUrl, pageCount, selectedPages, cropMode,
                   loadError, cropRect, draggedIndex, reading, loadedUrl>>
    /\ UNCHANGED <<done, editorVars>>

\* A variant that turns right whatever the button.
AngleRight(direction) == 90

\* const angle = direction === 'left' ? -90 : 90
Angle(direction) == IF direction = "left" THEN 0 - 90 ELSE 90

\* handleRotate(direction) up to the await inside updatePdf.
HandleRotate(direction) ==
    /\ ScreenFree
    /\ orgFile # NULL
    /\ EditsLeft
    /\ BeginUpdate("rotate", [direction |-> direction, angle |-> Angle(direction),
                               selected |-> selectedPages])
    /\ out' = NULL
    /\ UNCHANGED <<mode, orgFile, pdfBytes, pdfUrl, pageCount, selectedPages, cropMode,
                   loadError, cropRect, draggedIndex, reading, loadedUrl, dragging>>
    /\ UNCHANGED <<done, editorVars>>

\* handleDelete up to the await inside updatePdf; confirmed is the answer to confirm().
HandleDelete(confirmed) ==
    /\ ScreenFree
    /\ orgFile # NULL
    /\ EditsLeft
    /\ IF selectedPages = {} \/ ~confirmed
       THEN UNCHANGED <<isProcessing, flights>>
       ELSE BeginUpdate("delete", [selected |-> selectedPages])
    /\ out' = NULL
    /\ UNCHANGED <<mode, orgFile, pdfBytes, pdfUrl, pageCount, selectedPages, cropMode,
                   loadError, cropRect, draggedIndex, reading, loadedUrl, dragging>>
    /\ UNCHANGED <<done, editorVars>>

\* handleCropOpen(index).
HandleCropOpen(index) ==
    /\ GridShown
    /\ index \in GridIndices
    /\ cropMode' = index
    /\ cropRect' = DefaultCropRect
    /\ out' = NULL
    /\ UNCHANGED <<mode, orgFile, pdfBytes, pdfUrl, pageCount, selectedPages, isProcessing,
                   loadError, draggedIndex, reading, loadedUrl, dragging, flights>>
    /\ UNCHANGED <<done, editorVars>>

\* The onChange of one input of the crop modal: setCropRect({ ...cropRect, field: v }).
SetCropRect(field, v) ==
    /\ ModalOpen
    /\ cropRect' = [cropRect EXCEPT ![field] = v]
    /\ out' = NULL
    /\ UNCHANGED <<mode, orgFile, pdfBytes, pdfUrl, pageCount, selectedPages, cropMode,
                   isProcessing, loadError, draggedIndex, reading, loadedUrl, dragging,
                   flights>>
    /\ UNCHANGED <<done, editorVars>>

\* The Cancel button of the crop modal: setCropMode(null).
CropCancel ==
    /\ ModalOpen
    /\ cropMode' = NoIndex
    /\ out' = NULL
    /\ UNCHANGED <<mode, orgFile, pdfBytes, pdfUrl, pageCount, selectedPages, isProcessing,
                   loadError, cropRect, draggedIndex, reading, loadedUrl, dragging, flights>>
    /\ UNCHANGED <<done, editorVars>>

\* handleCropApply up to the await inside updatePdf; without bytes updatePdf returns
\* at once and setCropMode(null) closes the modal.
HandleCropApply ==
    /\ ModalOpen
    /\ EditsLeft
    /\ BeginUpdate("crop", [index |-> cropMode, rect |-> cropRect])
    /\ cropMode' = IF pdfBytes = <<>> THEN NoIndex ELSE cropMode
    /\ out' = NULL
    /\ UNCHANGED <<mode, orgFile, pdfBytes, pdfUrl, pageCount, selectedPages, loadError,
                   cropRect, draggedIndex, reading, loadedUrl, dragging>>
    /\ UNCHANGED <<done, editorVars>>

\* A variant that sets the angle instead of adding it.
RotatePagesAbsolute(pages, selected, angle) ==
    [i \in 1 .. Len(pages) |->
        IF (i - 1) \in selected THEN [pages[i] EXCEPT !.rotation = angle]
        ELSE pages[i]]

\* The callback of handleRotate on the loaded pages.
RotatePages(pages, selected, angle) ==
    [i \in 1 .. Len(pages) |->
        IF (i - 1) \in selected THEN [pages[i] EXCEPT !.rotation = @ + angle]
        ELSE pages[i]]

\* The callback of handleDelete: removePage from the highest index down.
RECURSIVE DeletePages(_, _)
DeletePages(pages, selected) ==
    IF selected = {} THEN pages
    ELSE LET index == CHOOSE i \in selected : \A j \in selected : j <= i
         IN  DeletePages(RemoveAt(pages, index + 1), selected \ {index})

\* A variant that exchanges the two pages.
ReorderPagesSwap(pages, from, to) ==
    [i \in 1 .. Len(pages) |->
        IF i = from + 1 THEN pages[to + 1]
        ELSE IF i = to + 1 THEN pages[from + 1]
        ELSE pages[i]]

\* A variant whose copies lose the rotation of the pages.
ReorderPagesBare(pages, from, to) ==
    LET indices == [i \in 1 .. Len(pages) |-> i - 1]
        moved == SubSeq(indices, 1, from) \o SubSeq(indices, from + 2, Len(indices))
        placed == SubSeq(moved, 1, to) \o <<from>> \o SubSeq(moved, to + 1, Len(moved))
    IN  [i \in 1 .. Len(placed) |-> [pages[placed[i] + 1] EXCEPT !.rotation = 0]]

\* The callback of handleDrop: the indices with one moved, then the pages copied
\* into a new document in that order.
ReorderPages(pages, from, to) ==
    LET indices == [i \in 1 .. Len(pages) |-> i - 1]
        movedItem == indices[from + 1]
        moved == InsertAt(RemoveAt(indices, from + 1), to + 1, movedItem)
    IN  [i \in 1 .. Len(moved) |-> pages[moved[i] + 1]]

\* A variant that keeps y top-down.
CropBoxTopDown(page, rect) ==
    [x |-> RMul(RDiv(R(rect.x), R(100)), R(page.width)),
     y |-> RMul(RDiv(R(rect.y), R(100)), R(page.height)),
     width |-> RMul(RDiv(R(rect.width), R(100)), R(page.width)),
     height |-> RMul(RDiv(R(rect.height), R(100)), R(page.height))]

\* The callback of handleCropApply: percentages of the page size, y turned bottom-up.
CropBox(page, rect) ==
    LET width == R(page.width)
        height == R(page.height)
        cropX == RMul(RDiv(R(rect.x), R(100)), width)
        cropH == RMul(RDiv(R(rect.height), R(100)), height)
        cropY == RSub(RSub(height, RMul(RDiv(R(rect.y), R(100)), height)), cropH)
        cropW == RMul(RDiv(R(rect.width), R(100)), width)
    IN  [x |-> cropX, y |-> cropY, width |-> cropW, height |-> cropH]

CropPage(pages, index, rect) ==
    [pages EXCEPT ![index + 1] = [@ EXCEPT !.crop = CropBox(pages[index + 1], rect)]]

\* The callback throws: an index outside the loaded document.
CallbackThrows(op) ==
    LET n == Len(op.base)
    IN  CASE op.kind = "delete" -> \E i \in op.args.selected : i >= n
          [] op.kind = "reorder" -> op.args.from >= n \/ op.args.to >= n
          [] op.kind = "crop" -> op.args.index >= n
          [] OTHER -> FALSE

\* The document the callback leaves, from the bytes the operation loaded.
Mutated(op) ==
    CASE op.kind = "rotate" -> RotatePages(op.base, op.args.selected, op.args.angle)
      [] op.kind = "delete" -> DeletePages(op.base, op.args.selected)
      [] op.kind = "reorder" -> ReorderPages(op.base, op.args.from, op.args.to)
      [] op.kind = "crop" -> CropPage(op.base, op.args.index, op.args.rect)

\* The pages in the bytes of save(): an empty document gets a page.
Serialized(pages) == IF pages = <<>> THEN <<BlankPage>> ELSE pages

StructureKinds == {"rotate", "delete", "reorder", "crop"}

\* The stages of updatePdf that can reject for reasons outside the arguments: the
\* load of the bytes, the callback (copyPages and save of the rebuilt document, the
\* page setters) and the save.  The callback of a rotate without a selection returns
\* before it touches the document.
UpdateStages(op) ==
    IF op.kind = "rotate" /\ op.args.selected = {} THEN {"load", "save"}
    ELSE {"load", "callback", "save"}

\* The alert the callback of handleRotate raises before anything else.
Warnings(op, fault) ==
    IF op.kind = "rotate" /\ op.args.selected = {} /\ fault # "load"
    THEN <<"Please select pages to rotate.">>
    ELSE <<>>

\* A variant whose catch block also clears the selection.
UpdateFailedClears(op, fault) ==
    /\ out' = [kind |-> "alert", fault |-> fault,
               alerts |-> Append(Warnings(op, fault), "Error modifying PDF: ")]
    /\ selectedPages' = {}
    /\ UNCHANGED <<pdfBytes, pdfUrl, loadError, done>>

\* The catch block of updatePdf: the alert, and no setter is called.
UpdateFailed(op, fault) ==
    /\ out' = [kind |-> "alert", fault |-> fault,
               alerts |-> Append(Warnings(op, fault), "Error modifying PDF: ")]
    /\ UNCHANGED <<pdfBytes, pdfUrl, loadError, selectedPages, done>>

\* A variant that leaves the selection as it is.
UpdateDoneKeepsSelection(op) ==
    /\ DisplayPdf(Serialized(Mutated(op)))
    /\ UNCHANGED selectedPages
    /\ done' = Append(done, [op |-> op, after |-> Serialized(Mutated(op))])
    /\ out' = IF Warnings(op, "none") = <<>> THEN NULL
              ELSE [kind |-> "alert", fault |-> "none", alerts |-> Warnings(op, "none")]

\* The end of the try block of updatePdf: the new bytes are displayed and the
\* selection is cleared.
UpdateDone(op) ==
    /\ DisplayPdf(Serialized(Mutated(op)))
    /\ selectedPages' = {}
    /\ done' = Append(done, [op |-> op, after |-> Serialized(Mutated(op))])
    /\ out' = IF Warnings(op, "none") = <<>> THEN NULL
              ELSE [kind |-> "alert", fault |-> "none", alerts |-> Warnings(op, "none")]

\* updatePdf from its first await to the end of finally.  fault: the stage that
\* rejects in this run ("none": each resolves).
SettleUpdate(k, fault) ==
    /\ mode = "organize"
    /\ k \in 1 .. Len(flights)
    /\ flights[k].kind \in StructureKinds
    /\ fault \in UpdateStages(flights[k]) \cup {"none"}
    /\ LET op == flights[k]
       IN  /\ IF fault # "none" THEN UpdateFailed(op, fault)
              ELSE IF CallbackThrows(op) THEN UpdateFailed(op, "callback")
              ELSE UpdateDone(op)
           /\ cropMode' = IF op.kind = "crop" THEN NoIndex ELSE cropMode
    /\ isProcessing' = FALSE
    /\ draggedIndex' = NoIndex
    /\ flights' = RemoveAt(flights, k)
    /\ UNCHANGED <<mode, orgFile, pageCount, cropRect, reading, loadedUrl, dragging>>
    /\ UNCHANGED editorVars

\* handleDownload: the Download Result button, disabled without bytes.
HandleDownload ==
    /\ ScreenFree
    /\ pdfBytes # <<>>
    /\ orgFile # NULL
    /\ out' = [kind |-> "download", name |-> <<"organized_", orgFile.name>>,
               pages |-> pdfBytes]
    /\ UNCHANGED organizeVars
    /\ UNCHANGED editorVars

\* handleSave up to its first await (the fetch): the SAVE button is never disabled
\* and the handler keeps no flag, so a click starts a run whatever is in flight.
BeginSave ==
    /\ mode = "editor"
    /\ PointerFree
    /\ Len(flights) < MaxFlights
    /\ flights' = Append(flights, [kind |-> "save", anns |-> annotations,
                                   dims |-> pageDims, pw |-> pdfPassword])
    /\ out' = NULL
    /\ UNCHANGED <<mode, orgFile, pdfBytes, pdfUrl, pageCount, selectedPages, cropMode,
                   isProcessing, loadError, cropRect, draggedIndex, reading, loadedUrl,
                   dragging>>
    /\ UNCHANGED <<done, editorVars>>

\* handleSave from the fetch to its end, on what its closure captured.
SettleSave(k, fault) ==
    /\ mode = "editor"
    /\ k \in 1 .. Len(flights)
    /\ flights[k].kind = "save"
    /\ out' = SaveResult(SaveEvents(flights[k].anns, flights[k].dims, flights[k].pw, fault),
                         fault)
    /\ flights' = RemoveAt(flights, k)
    /\ UNCHANGED <<mode, orgFile, pdfBytes, pdfUrl, pageCount, selectedPages, cropMode,
                   isProcessing, loadError, cropRect, draggedIndex, reading, loadedUrl,
                   dragging>>
    /\ UNCHANGED <<done, editorVars>>

InitOps == \E e \in OpsSessions : mode = e.screen /\ Mounted(e)

NextOps ==
    \/ \E f \in env.orgFiles : HandleFileChange(f)
    \/ \E rejected \in BOOLEAN : FileRead(rejected)
    \/ HandleDocumentLoadSuccess
    \/ HandleDocumentLoadError
    \/ \E index \in env.picks : ToggleSelection(index)
    \/ \E index \in env.drags : HandleDragStart(index)
    \/ DragAbandoned
    \/ \E dropIndex \in GridIndices : HandleDrop(dropIndex)
    \/ \E direction \in env.directions : HandleRotate(direction)
    \/ \E confirmed \in env.confirms : HandleDelete(confirmed)
    \/ \E index \in env.crops : HandleCropOpen(index)
    \/ \E field \in env.cropFields, v \in env.cropValues :
          SetCropRect(field, v)
    \/ CropCancel
    \/ HandleCropApply
    \/ \E k \in 1 .. Len(flights), fault \in {"none", "load", "callback", "save"} :
          SettleUpdate(k, fault)
    \/ HandleDownload
    \/ mode = "editor" /\ \E answer \in PromptAnswers : HandleSetPassword(answer)
    \/ BeginSave
    \/ \E k \in 1 .. Len(flights), fault \in env.faults \cup {"none"} : SettleSave(k, fault)

SpecOps == InitOps /\ [][NextOps]_vars

(***************************************************************************)
(* Properties.  The expected values are written out from the statements    *)
(* being checked, with their own arithmetic, not with the operators above. *)
(***************************************************************************)
\* The list of page p in a store (empty when the page has no entry).
ListOf(anns, p) == IF p \in DOMAIN anns THEN anns[p] ELSE <<>>

\* after is before with ann appended to page p's list and nothing else changed.
AppendedTo(before, after, p, ann) ==
    /\ DOMAIN after = (DOMAIN before) \cup {p}
    /\ after[p] = Append(ListOf(before, p), ann)
    /\ \A q \in (DOMAIN before) \ {p} : after[q] = before[q]

\* A save has just delivered its output; the store and the recorded render sizes are
\* the ones it replayed.
Saved == out # NULL /\ out.kind = "download"

\* Render width and height of page p as recorded, else the page's own size.
RenderW(p) == IF p \in DOMAIN pageDims THEN pageDims[p].width ELSE DocPages[p].width
RenderH(p) == IF p \in DOMAIN pageDims THEN pageDims[p].height ELSE DocPages[p].height

\* sx = pw / rw and sy = ph / rh of page p.
Sx(p) == RNorm(DocPages[p].width, RenderW(p))
Sy(p) == RNorm(DocPages[p].height, RenderH(p))

\* (x * sx, ph - y * sy): the document-space image of the screen point (x, y) of page p.
DocPoint(x, y, p) ==
    <<RMul(R(x), Sx(p)), RSub(R(DocPages[p].height), RMul(R(y), Sy(p)))>>

\* The drawing operations the save emitted for annotation i of page p, in order.
OpsFor(p, i) == SelectSeq(out.ops, LAMBDA o : o.page = p /\ o.ann = i)

\* The annotations of the store as (page, index) pairs.
Stored == {pi \in (DOMAIN annotations) \X (1 .. MaxAnns + 1) :
              pi[2] <= Len(annotations[pi[1]])}

\* C1: at save, every Path annotation with n >= 2 points yields exactly n-1 drawLine
\* operations, the j-th from the transformed point j to the transformed point j+1.
C1_PathSegments ==
    Saved =>
      \A pi \in Stored :
        LET a == annotations[pi[1]][pi[2]]
            ops == OpsFor(pi[1], pi[2])
        IN  (a.type = "path" /\ Len(a.points) >= 2) =>
              /\ Len(ops) = Len(a.points) - 1
              /\ \A j \in 1 .. Len(ops) :
                   /\ ops[j].op = "drawLine"
                   /\ ops[j].start = DocPoint(a.points[j][1], a.points[j][2], pi[1])
                   /\ ops[j].end = DocPoint(a.points[j + 1][1], a.points[j + 1][2], pi[1])

\* A three-point stroke has been saved as two segments.
C1_Witness ==
    /\ Saved
    /\ \E pi \in Stored :
         /\ annotations[pi[1]][pi[2]].type = "path"
         /\ Len(annotations[pi[1]][pi[2]].points) = 3
         /\ annotations[pi[1]][pi[2]].points[2] # annotations[pi[1]][pi[2]].points[3]
         /\ pi[1] \in DOMAIN pageDims
         /\ Len(OpsFor(pi[1], pi[2])) = 2

\* C2: with pen or highlight active, pointer-up ends the gesture and appends to the
\* current page exactly one Path holding the captured samples in capture order, with
\* width 2 and the opaque colour for pen, width 20 and the 50%-opacity colour for
\* highlight; no gesture is in progress afterwards and the in-progress list is empty.
C2_PenGesture ==
    [][(/\ isDrawing
        /\ tool \in {"pen", "highlight"}
        /\ (~isDrawing' \/ annotations' # annotations \/ captured' = <<>>))
       =>
       (/\ Len(captured) >= 1
        /\ AppendedTo(annotations, annotations', pageNumber,
             [type |-> "path", points |-> captured,
              color |-> IF tool = "pen" THEN "red" ELSE "rgba(255, 255, 0, 0.5)",
              width |-> IF tool = "pen" THEN 2 ELSE 20])
        /\ ~isDrawing'
        /\ currentPath' = <<>>)]_vars

\* A highlight stroke of one pointer-down and two moves has been committed.
C2_Witness ==
    /\ ~isDrawing
    /\ currentPath = <<>>
    /\ \E pi \in Stored :
         /\ annotations[pi[1]][pi[2]].type = "path"
         /\ annotations[pi[1]][pi[2]].width = 20
         /\ annotations[pi[1]][pi[2]].points = <<<<10, 10>>, <<21, 12>>, <<10, 10>>>>

\* C3: with the rect tool, pointer-up commits a Rectangle (the live drag: anchor at the
\* pointer-down point, extent up to the latest sample) iff |width| > 5 or |height| > 5,
\* leaves the store unchanged otherwise, and in both cases clears the in-progress
\* rectangle and ends the gesture.
C3_RectThreshold ==
    [][(/\ isDrawing
        /\ tool = "rect"
        /\ (~isDrawing' \/ annotations' # annotations \/ captured' = <<>>))
       =>
       LET w == captured[Len(captured)][1] - captured[1][1]
           h == captured[Len(captured)][2] - captured[1][2]
       IN  /\ IF Abs(w) > 5 \/ Abs(h) > 5
              THEN AppendedTo(annotations, annotations', pageNumber,
                     [type |-> "rect", x |-> captured[1][1], y |-> captured[1][2],
                      width |-> w, height |-> h, color |-> "blue"])
              ELSE annotations' = annotations
           /\ currentRect' = NULL
           /\ ~isDrawing']_vars

\* A drag over the threshold in width only has been committed.
C3_Witness ==
    /\ ~isDrawing
    /\ currentRect = NULL
    /\ \E pi \in Stored :
         /\ annotations[pi[1]][pi[2]].type = "rect"
         /\ annotations[pi[1]][pi[2]].width = 6
         /\ annotations[pi[1]][pi[2]].height = -3

\* The value is empty after trimming: it holds nothing but whitespace.
Blank(v) == \A i \in 1 .. Len(v) : v[i] = " "

\* A step that confirms the open text or note input.
ConfirmStep ==
    /\ textInput # NULL
    /\ (textInput' = NULL \/ tool' # tool \/ annotations' # annotations)

\* C4: confirming a text or note input whose content is empty after trimming adds no
\* annotation to any page, closes the input and sets the tool to view.
C4_EmptyTextDiscarded ==
    [][(ConfirmStep /\ Blank(textInput.value))
       => (annotations' = annotations /\ textInput' = NULL /\ tool' = "view")]_vars

\* An input holding only a space is open and can be confirmed.
C4_Witness ==
    /\ textInput # NULL
    /\ textInput.value = <<" ">>
    /\ ENABLED ConfirmText

\* C5: confirming a text or note input with non-empty trimmed content appends exactly
\* one annotation, of the kind of the tool that opened the input, anchored at the click
\* that opened it; the input is closed and the tool becomes view.
C5_TextCommitted ==
    [][(ConfirmStep /\ ~Blank(textInput.value))
       =>
       (/\ \E p \in 1 .. NumDocPages :
             /\ p \in DOMAIN annotations'
             /\ Len(annotations'[p]) = Len(ListOf(annotations, p)) + 1
             /\ AppendedTo(annotations, annotations', p,
                           annotations'[p][Len(annotations'[p])])
             /\ LET a == annotations'[p][Len(annotations'[p])]
                IN  /\ tool \in {"text", "note"}
                    /\ a.type = tool
                    /\ <<a.x, a.y>> = captured[1]
        /\ textInput' = NULL
        /\ tool' = "view")]_vars

\* A note typed with surrounding spaces has been committed.
C5_Witness ==
    /\ textInput = NULL
    /\ tool = "view"
    /\ \E pi \in Stored :
         /\ annotations[pi[1]][pi[2]].type = "note"
         /\ annotations[pi[1]][pi[2]].text = <<" ", "a", " ">>
         /\ annotations[pi[1]][pi[2]].x = 21

\* A click delivered to the canvas while no gesture or input is in progress.
ClickStep ==
    /\ ~isDrawing /\ textInput = NULL /\ ~fileDialog
    /\ ~isDrawing'
    /\ captured' # <<>>

\* C6: a canvas click with the image tool and a staged image appends exactly one Image
\* annotation to the current page at the click point with the staged width and height,
\* clears the staged image and sets the tool to view; with no staged image the click
\* changes nothing.
C6_ImagePlacement ==
    [][(ClickStep /\ tool = "image")
       =>
       IF pendingImage # NULL
       THEN /\ AppendedTo(annotations, annotations', pageNumber,
                 [type |-> "image", x |-> captured'[1][1], y |-> captured'[1][2],
                  width |-> pendingImage.width, height |-> pendingImage.height,
                  file |-> pendingImage.file])
            /\ pendingImage' = NULL
            /\ tool' = "view"
       ELSE UNCHANGED <<numPages, pageNumber, tool, annotations, currentPath,
                        currentRect, isDrawing, textInput, pendingImage, pageDims>>]_vars

\* The wide image, staged at 200 x 50, has been placed at (15, 15).
C6_Witness ==
    /\ pendingImage = NULL
    /\ tool = "view"
    /\ \E pi \in Stored :
         /\ annotations[pi[1]][pi[2]].type = "image"
         /\ annotations[pi[1]][pi[2]].width = <<200, 1>>
         /\ annotations[pi[1]][pi[2]].height = <<50, 1>>
         /\ annotations[pi[1]][pi[2]].x = 15

\* s = min(200 / w, 200 / h, 1)
StagingScale(w, h) ==
    LET a == RNorm(200, w)
        b == RNorm(200, h)
        m == IF RLess(a, b) THEN a ELSE b
    IN  IF RLess(m, R(1)) THEN m ELSE R(1)

Min(a, b) == IF a < b THEN a ELSE b

\* C8: at replay a stored rectangle (x, y, w, h), whatever the signs of w and h, is
\* normalized to the anchor (min(x, x+w), min(y, y+h)) with extents (|w|, |h|): the
\* extents are non-negative and the area |w*h| is preserved.
C8_RectNormalized ==
    Saved =>
      \A pi \in Stored :
        LET a == annotations[pi[1]][pi[2]]
            ops == OpsFor(pi[1], pi[2])
        IN  a.type = "rect" =>
              /\ Len(ops) = 1
              /\ ops[1].box.x = Min(a.x, a.x + a.width)
              /\ ops[1].box.y = Min(a.y, a.y + a.height)
              /\ ops[1].box.width = Abs(a.width)
              /\ ops[1].box.height = Abs(a.height)
              /\ ops[1].box.width >= 0 /\ ops[1].box.height >= 0
              /\ ops[1].box.width * ops[1].box.height = Abs(a.width * a.height)

\* A rectangle dragged to the left and downwards has been saved.
C8_Witness ==
    /\ Saved
    /\ \E pi \in Stored :
         /\ annotations[pi[1]][pi[2]].type = "rect"
         /\ annotations[pi[1]][pi[2]].width < 0
         /\ annotations[pi[1]][pi[2]].height > 0
         /\ Len(OpsFor(pi[1], pi[2])) = 1

\* The inverse mapping: (X / sx, (ph - Y) / sy).
ScreenPoint(X, Y, p) ==
    <<RDiv(X, Sx(p)), RDiv(RSub(R(DocPages[p].height), Y), Sy(p))>>

\* C9: the screen-to-document point mapping used at replay is invertible: mapping the
\* drawn point back with the same (rw, rh, pw, ph) recovers the stored screen point.
C9_PointRoundTrip ==
    Saved =>
      \A pi \in Stored :
        LET a == annotations[pi[1]][pi[2]]
            ops == OpsFor(pi[1], pi[2])
        IN  /\ (a.type = "path" /\ Len(a.points) >= 2) =>
                 /\ Len(ops) >= 1
                 /\ \A j \in 1 .. Len(ops) :
                      /\ ScreenPoint(ops[j].start[1], ops[j].start[2], pi[1])
                           = <<R(a.points[j][1]), R(a.points[j][2])>>
                      /\ ScreenPoint(ops[j].end[1], ops[j].end[2], pi[1])
                           = <<R(a.points[j + 1][1]), R(a.points[j + 1][2])>>
            /\ a.type = "text" =>
                 /\ Len(ops) <= 1
                 /\ \A j \in 1 .. Len(ops) :
                      ScreenPoint(ops[j].x, ops[j].y, pi[1]) = <<R(a.x), R(a.y)>>

\* A stroke has been saved on a page whose two scale factors differ.
C9_Witness ==
    /\ Saved
    /\ \E pi \in Stored :
         /\ annotations[pi[1]][pi[2]].type = "path"
         /\ Len(annotations[pi[1]][pi[2]].points) >= 2
         /\ pi[1] \in DOMAIN pageDims
         /\ Sx(pi[1]) # Sy(pi[1])

\* The box of a box-shaped annotation in screen units, top-left origin: the normalized
\* rectangle, the image at its staged size, the note with its fixed 150 x 100 box.
ScreenBox(a) ==
    CASE a.type = "rect" ->
           [x |-> R(Min(a.x, a.x + a.width)), y |-> R(Min(a.y, a.y + a.height)),
            w |-> R(Abs(a.width)), h |-> R(Abs(a.height))]
      [] a.type = "image" -> [x |-> R(a.x), y |-> R(a.y), w |-> a.width, h |-> a.height]
      [] a.type = "note" -> [x |-> R(a.x), y |-> R(a.y), w |-> R(150), h |-> R(100)]

\* C10: every box-shaped annotation drawn at save (a rectangle always is) is drawn with
\* the anchor (x*sx, ph - (y + h)*sy) and the size (w*sx, h*sy).
C10_BoxMapping ==
    Saved =>
      \A pi \in Stored :
        LET a == annotations[pi[1]][pi[2]]
            ops == OpsFor(pi[1], pi[2])
            p == pi[1]
        IN  /\ a.type = "rect" => Len(ops) = 1
            /\ (a.type \in {"rect", "image", "note"} /\ Len(ops) >= 1) =>
              /\ ops[1].op = (IF a.type = "image" THEN "drawImage" ELSE "drawRectangle")
              /\ ops[1].x = RMul(ScreenBox(a).x, Sx(p))
              /\ ops[1].y = RSub(R(DocPages[p].height),
                                 RMul(RAdd(ScreenBox(a).y, ScreenBox(a).h), Sy(p)))
              /\ ops[1].width = RMul(ScreenBox(a).w, Sx(p))
              /\ ops[1].height = RMul(ScreenBox(a).h, Sy(p))

\* An image has been saved on a page whose render size was recorded.
C10_Witness ==
    /\ Saved
    /\ \E pi \in Stored :
         /\ annotations[pi[1]][pi[2]].type = "image"
         /\ pi[1] \in DOMAIN pageDims
         /\ Len(OpsFor(pi[1], pi[2])) = 1

\* An annotation whose replay throws: a text or note with a character the standard
\* font cannot encode, an image that is neither JPEG nor PNG.
Unreplayable(a) ==
    \/ a.type \in {"text", "note"} /\ \E i \in 1 .. Len(a.text) : a.text[i] = "U+263A"
    \/ a.type = "image" /\ a.file.mime = "image/gif"

\* The number of draw calls a replayable annotation takes.
CallCount(a) ==
    CASE a.type = "path" -> IF Len(a.points) >= 2 THEN Len(a.points) - 1 ELSE 0
      [] a.type = "note" -> 2
      [] OTHER -> 1

\* The log entries of per-annotation failures.
ErrorEntries == SelectSeq(out.logs, LAMBDA e : e[3][1] = "Error processing annotation: ")

\* C11: when no stage outside the replay throws, every annotation whose replay throws
\* leaves one log entry, every other annotation (later ones on the same page and on
\* later pages included) gets all its draw calls, and the document is offered.
C11_FailureIsolated ==
    (out # NULL /\ out.fault = "none") =>
      /\ out.kind = "download"
      /\ out.name = "edited_source.pdf"
      /\ Len(ErrorEntries) =
           Cardinality({pi \in Stored : Unreplayable(annotations[pi[1]][pi[2]])})
      /\ \A pi \in Stored :
           ~Unreplayable(annotations[pi[1]][pi[2]]) =>
              Len(OpsFor(pi[1], pi[2])) = CallCount(annotations[pi[1]][pi[2]])

\* A save in which an annotation failed and a later one of the same page was drawn.
C11_Witness ==
    /\ out # NULL
    /\ out.fault = "none"
    /\ \E pi \in Stored, pj \in Stored :
         /\ Unreplayable(annotations[pi[1]][pi[2]])
         /\ pi[1] = pj[1]
         /\ pi[2] < pj[2]
         /\ Len(OpsFor(pj[1], pj[2])) >= 1
         /\ Len(ErrorEntries) = 1

\* The messages passed to addLog during the run that produced o, in call order.
RecordedMessages(o) ==
    LET calls == SelectSeq(o.events, LAMBDA e : e.op = "addLog")
    IN  [i \in 1 .. Len(calls) |-> calls[i].msg]

\* Every entry is '<ISO timestamp>: <message>', the timestamps do not decrease, and
\* the messages are the recorded ones in the order they were recorded.
WellFormedLog(o) ==
    /\ \A i \in 1 .. Len(o.logs) :
         /\ Len(o.logs[i]) = 3
         /\ DOMAIN o.logs[i][1] = {"iso"}
         /\ o.logs[i][2] = ": "
    /\ \A i \in 1 .. Len(o.logs) - 1 : o.logs[i][1].iso <= o.logs[i + 1][1].iso
    /\ [i \in 1 .. Len(o.logs) |-> o.logs[i][3]] = RecordedMessages(o)
    /\ o.logs[1][3] = <<"Starting save process...">>
    /\ o.logs[Len(o.logs)][3][1] = "CRITICAL ERROR: "

\* C12: a save whose serialization throws offers no edited document, leaves the
\* annotation store, tool, password and page dimensions as they were, alerts the user
\* once and offers save_error_log.txt, whose entries are well formed and in order.
C12_SerializeFailure ==
    [][(out' # NULL /\ out'.fault = "serialize") =>
         /\ out'.kind = "error-log"
         /\ out'.name = "save_error_log.txt"
         /\ \A i \in 1 .. Len(out'.events) :
              out'.events[i].op = "download" => out'.events[i].name = "save_error_log.txt"
         /\ UNCHANGED <<annotations, tool, pdfPassword, pageDims>>
         /\ Len(out'.alerts) = 1
         /\ WellFormedLog(out')]_vars

\* Serialization has failed in a save of a store holding a stroke, with a password set.
C12_Witness ==
    /\ out # NULL
    /\ out.fault = "serialize"
    /\ pdfPassword # ""
    /\ TotalAnnotations = 1
    /\ Len(out.logs) >= 8

\* C13 (as stated): a save ends without offering the edited document only when
\* serialization threw, and a throw in fetch, load or encryption does not abort it.
C13_OnlySerializationFatal ==
    out # NULL =>
      /\ out.kind # "download" => out.fault = "serialize"
      /\ out.fault \in {"fetch", "load", "encrypt"} => out.kind = "download"

\* The positions of the events of kind op in the run that produced out.
EventsAt(op) == {i \in 1 .. Len(out.events) : out.events[i].op = op}

\* C14 (as stated): with a password set and a document that does not support
\* encryption, the save skips the encryption, logs a warning that is not the fatal
\* one, replays the annotations and offers the edited document.
C14_EncryptionSkipped ==
    (out # NULL /\ out.fault = "encrypt" /\ pdfPassword # "") =>
      /\ EventsAt("encrypt") = {}
      /\ out.kind = "download"
      /\ out.alerts = <<>>
      /\ \A pi \in Stored :
           Len(OpsFor(pi[1], pi[2])) = CallCount(annotations[pi[1]][pi[2]])

\* The positions at which the run that produced out entered its encryption step.
EncryptionSteps ==
    {i \in EventsAt("addLog") : out.events[i].msg = <<"Encrypting PDF with password...">>}

C16_PagesAscending ==
    Saved =>
      \A i \in 1 .. Len(out.ops), j \in 1 .. Len(out.ops) :
        i < j => out.ops[i].page <= out.ops[j].page

\* Page 2 was annotated before page 1, and the save drew on both.
C16_Witness ==
    /\ Saved
    /\ Len(committed) = 2
    /\ committed[1].page = 2
    /\ committed[2].page = 1
    /\ Len(out.ops) >= 2
    /\ out.ops[1].page = 1
    /\ out.ops[Len(out.ops)].page = 2

\* The annotations committed on page p, in the order they were committed.
RECURSIVE CommittedOn(_, _)
CommittedOn(hist, p) ==
    IF hist = <<>> THEN <<>>
    ELSE LET before == CommittedOn(SubSeq(hist, 1, Len(hist) - 1), p)
             last == hist[Len(hist)]
         IN  IF last.page = p THEN Append(before, last.ann) ELSE before

\* The draw calls a save made on page p, in the order they were issued.
OpsOn(p) == SelectSeq(out.ops, LAMBDA o : o.page = p)

\* C17: on every page the store lists the annotations in the order they were committed,
\* and a save replays them in that order: the draw calls of a page follow the list
\* (those of an earlier annotation first), every replayable annotation gets its calls,
\* and a text call carries the text of the annotation it stands for.
C17_InsertionOrder ==
    /\ \A p \in 1 .. NumDocPages : ListOf(annotations, p) = CommittedOn(committed, p)
    /\ Saved =>
         \A p \in DOMAIN annotations :
           LET ops == OpsOn(p)
           IN  /\ \A i \in 1 .. Len(ops), j \in 1 .. Len(ops) :
                    i < j => ops[i].ann <= ops[j].ann
               /\ \A k \in 1 .. Len(annotations[p]) :
                    ~Unreplayable(annotations[p][k]) =>
                       Len(OpsFor(p, k)) = CallCount(annotations[p][k])
               /\ \A i \in 1 .. Len(ops) :
                    /\ ops[i].ann \in 1 .. Len(CommittedOn(committed, p))
                    /\ ops[i].op = "drawText" =>
                          ops[i].text = CommittedOn(committed, p)[ops[i].ann].text

\* Two annotations of different kinds were committed on one page, both pages have been
\* displayed, and the save drew both annotations.
C17_Witness ==
    /\ Saved
    /\ \E p \in DOMAIN annotations :
         /\ Len(annotations[p]) = 2
         /\ annotations[p][1].type = "note"
         /\ annotations[p][2].type = "text"
         /\ Len(OpsOn(p)) = 3
         /\ p \in DOMAIN pageDims
    /\ Cardinality(DOMAIN pageDims) = 2

\* s is an initial part of t.
IsPrefix(s, t) == Len(s) <= Len(t) /\ SubSeq(t, 1, Len(s)) = s

\* C18: no step of the editor modifies, reorders or removes a committed annotation:
\* every page's list before the step is an initial part of its list after it.
C18_AppendOnly ==
    [][\A p \in 1 .. NumDocPages :
         IsPrefix(ListOf(annotations, p), ListOf(annotations', p))]_vars

\* A page holds two annotations and a save has run after the second was appended.
C18_Witness ==
    /\ \E p \in DOMAIN annotations : Len(annotations[p]) = 2
    /\ out # NULL
    /\ tool = "view"

\* The factors (sx, sy) a save would use for page q when the recorded render sizes are
\* dims: the page's document size over its recorded render size.
FactorsOf(dims, q) ==
    <<RNorm(DocPages[q].width, dims[q].width), RNorm(DocPages[q].height, dims[q].height)>>

\* C19: a save scales what it draws on a page by sx = (document width) / (recorded
\* render width) and sy = (document height) / (recorded render height) of that same
\* page, and a step that records the render size of one page leaves the recorded size,
\* hence the factors, of every other page as they were.
C19_PerPageScale ==
    /\ [](Saved =>
            \A pi \in Stored :
              LET p == pi[1]
                  a == annotations[p][pi[2]]
                  ops == OpsFor(p, pi[2])
              IN  (p \in DOMAIN pageDims /\ Len(ops) >= 1) =>
                    LET sx == FactorsOf(pageDims, p)[1]
                        sy == FactorsOf(pageDims, p)[2]
                    IN  CASE a.type = "path" -> ops[1].thickness = RMul(R(a.width), sx)
                          [] a.type = "text" -> ops[1].size = RMul(R(16), sy)
                          [] a.type = "rect" -> ops[1].borderWidth = RMul(R(3), sx)
                          [] a.type = "image" ->
                               /\ ops[1].width = RMul(a.width, sx)
                               /\ ops[1].height = RMul(a.height, sy)
                          [] a.type = "note" ->
                               /\ ops[1].width = RMul(R(150), sx)
                               /\ ops[1].height = RMul(R(100), sy))
    /\ [][\A q \in 1 .. NumDocPages :
            (pageDims' # pageDims /\ q # pageNumber) =>
               /\ q \in DOMAIN pageDims' <=> q \in DOMAIN pageDims
               /\ q \in DOMAIN pageDims => FactorsOf(pageDims', q) = FactorsOf(pageDims, q)]_vars

\* Annotations on two pages with different factors have been saved, both pages having
\* their render size recorded.
C19_Witness ==
    /\ Saved
    /\ DOMAIN pageDims = {1, 2}
    /\ FactorsOf(pageDims, 1) # FactorsOf(pageDims, 2)
    /\ \E pi \in Stored, pj \in Stored :
         /\ pi[1] = 1
         /\ pj[1] = 2
         /\ Len(OpsFor(1, pi[2])) >= 1
         /\ Len(OpsFor(2, pj[2])) >= 1

\* C20: operations are serialized.  At most one operation (a structure edit of the
\* organizer or a save of the editor) is in flight in any state, a new one begins
\* only when none is in flight, and an operation in flight holds the bytes that are
\* current, so its result replaces no update made after it started.
C20_Serialized ==
    /\ Len(flights) <= 1
    /\ \A k \in 1 .. Len(flights) :
          flights[k].kind \in StructureKinds => flights[k].base = pdfBytes

\* The structure edits of the history, by kind.
DoneOf(kind) == {i \in 1 .. Len(done) : done[i].op.kind = kind}

\* The outcome of the last step is the failure alert of a structure edit.
EditFailed(o) ==
    /\ mode = "organize"
    /\ o # NULL
    /\ o.kind = "alert"
    /\ o.fault # "none"

\* C21: when a structure edit fails in its load, in its callback or in its save, the
\* bytes in memory, the displayed document (its URL, the load it reported, the page
\* count, the load error) and the selection are what they were before the edit
\* settled, and the step ends with the alert "Error modifying PDF: ...".
C21_FailureLeavesState ==
    [][\A k \in 1 .. Len(flights), fault \in {"none", "load", "callback", "save"} :
          (SettleUpdate(k, fault) /\ EditFailed(out')) =>
            /\ pdfBytes' = pdfBytes
            /\ pdfUrl' = pdfUrl
            /\ loadedUrl' = loadedUrl
            /\ pageCount' = pageCount
            /\ loadError' = loadError
            /\ selectedPages' = selectedPages
            /\ done' = done
            /\ out'.alerts[Len(out'.alerts)] = "Error modifying PDF: "]_vars

\* A rotate of a selected page has failed in its save: the selection is still there.
C21_Witness ==
    /\ EditFailed(out)
    /\ out.fault = "save"
    /\ selectedPages # {}
    /\ pdfBytes # <<>>
    /\ ~isProcessing

\* The delta of a rotate button.
Delta(direction) == IF direction = "left" THEN -90 ELSE 90

\* C22: a rotate with a non-empty selection that goes through adds -90 (left) or
\* +90 (right) to the rotation of every selected page and leaves the rotation of the
\* other pages, the number of pages and their order as they were.
C22_RotateAdditive ==
    \A i \in DoneOf("rotate") :
      LET op == done[i].op
          after == done[i].after
      IN  op.args.selected # {} =>
            /\ Len(after) = Len(op.base)
            /\ \A j \in 1 .. Len(op.base) :
                  /\ after[j].id = op.base[j].id
                  /\ after[j].rotation =
                        IF (j - 1) \in op.args.selected
                        THEN op.base[j].rotation + Delta(op.args.direction)
                        ELSE op.base[j].rotation

\* A rotate to the left has gone through with one page selected and one not.
C22_Witness ==
    \E i \in DoneOf("rotate") :
      /\ done[i].op.args.direction = "left"
      /\ done[i].op.args.selected # {}
      /\ \E j \in 1 .. Len(done[i].op.base) : (j - 1) \notin done[i].op.args.selected

\* Two rotates in a row, in opposite directions, on the same non-empty selection.
RotatedBack(i) ==
    /\ i \in DoneOf("rotate")
    /\ i + 1 \in DoneOf("rotate")
    /\ done[i].op.args.selected # {}
    /\ done[i + 1].op.args.selected = done[i].op.args.selected
    /\ done[i + 1].op.args.direction # done[i].op.args.direction

\* C23: a rotate to the left followed by a rotate to the right of the same selected
\* pages (or right, then left) leaves every page with its original rotation, modulo 360.
C23_RotateRoundTrip ==
    \A i \in 1 .. Len(done) :
      RotatedBack(i) =>
        /\ Len(done[i + 1].after) = Len(done[i].op.base)
        /\ \A j \in 1 .. Len(done[i].op.base) :
              done[i + 1].after[j].rotation % 360 = done[i].op.base[j].rotation % 360

\* Left, then right, on the same selection, both gone through.
C23_Witness ==
    \E i \in 1 .. Len(done) : RotatedBack(i) /\ done[i].op.args.direction = "left"

\* C24: a rotate without a selection warns the user and never replaces the document:
\* no such rotate is among the edits that put new bytes and a new URL in place.
C24_EmptyRotateNoOp ==
    \A i \in DoneOf("rotate") : done[i].op.args.selected # {}

\* The pages of a sequence whose index is not in S, in their order.
Survivors(pages, S) ==
    LET F[n \in 0 .. Len(pages)] ==
            IF n = 0 THEN <<>>
            ELSE IF (n - 1) \in S THEN F[n - 1] ELSE Append(F[n - 1], pages[n])
    IN  F[Len(pages)]

\* C25: a confirmed delete of the selection S of valid indices from N pages leaves
\* N - |S| pages: the pages that were not selected, in their original order.
C25_DeleteSurvivors ==
    \A i \in DoneOf("delete") :
      LET op == done[i].op
      IN  (\A x \in op.args.selected : x \in 0 .. Len(op.base) - 1) =>
            /\ Len(done[i].after) = Len(op.base) - Cardinality(op.args.selected)
            /\ done[i].after = Survivors(op.base, op.args.selected)

\* Where a page is in a sequence of pages.
PlaceOf(pages, page) == CHOOSE j \in 1 .. Len(pages) : pages[j] = page

\* C26: a reorder from source to target, valid and distinct, leaves the same number
\* of pages, every original page exactly once, the page that was at source now at
\* target, and the other pages in their original relative order.
C26_ReorderMoves ==
    \A i \in DoneOf("reorder") :
      LET before == done[i].op.base
          after == done[i].after
          source == done[i].op.args.from + 1
          target == done[i].op.args.to + 1
      IN  /\ Len(after) = Len(before)
          /\ \A j \in 1 .. Len(before) :
                Cardinality({m \in 1 .. Len(after) : after[m] = before[j]}) = 1
          /\ after[target] = before[source]
          /\ \A j \in 1 .. Len(before), m \in 1 .. Len(before) :
                (j < m /\ j # source /\ m # source) =>
                  PlaceOf(after, before[j]) < PlaceOf(after, before[m])

\* The first of three pages has been dragged onto the last.
C26_Witness ==
    \E i \in DoneOf("reorder") :
      /\ Len(done[i].op.base) = 3
      /\ done[i].op.args.from = 0
      /\ done[i].op.args.to = 2

\* Two reorders in a row, the second from the target of the first to its source.
MovedBack(i) ==
    /\ i \in DoneOf("reorder")
    /\ i + 1 \in DoneOf("reorder")
    /\ done[i + 1].op.args.from = done[i].op.args.to
    /\ done[i + 1].op.args.to = done[i].op.args.from

\* C27: a reorder from source to target followed by the reorder from target to
\* source gives the original pages in the original order, each with its rotation and
\* its crop box.
C27_ReorderRoundTrip ==
    \A i \in 1 .. Len(done) :
      MovedBack(i) =>
        /\ Len(done[i + 1].after) = Len(done[i].op.base)
        /\ \A j \in 1 .. Len(done[i].op.base) :
              /\ done[i + 1].after[j].id = done[i].op.base[j].id
              /\ done[i + 1].after[j].rotation = done[i].op.base[j].rotation
              /\ done[i + 1].after[j].crop = done[i].op.base[j].crop

\* The turned page has been dragged to another place and back.
C27_Witness ==
    \E i \in 1 .. Len(done) :
      /\ MovedBack(i)
      /\ done[i].op.args.from = 1
      /\ done[i].op.base[2].rotation = 90
      /\ done[i].after[2] # done[i].op.base[2]

\* C28: a crop of the page at pageIndex, of size W x H, with the percentages
\* x, y, w, h sets the crop box of that page to
\* (x/100*W, H - (y + h)/100*H, w/100*W, h/100*H), whatever the percentages, and
\* leaves every other page, and the rest of that page, as it was.
C28_CropBox ==
    \A i \in DoneOf("crop") :
      LET before == done[i].op.base
          after == done[i].after
          at == done[i].op.args.index + 1
          rect == done[i].op.args.rect
          W == R(before[at].width)
          H == R(before[at].height)
      IN  /\ Len(after) = Len(before)
          /\ after[at].crop.x = RDiv(RMul(R(rect.x), W), R(100))
          /\ after[at].crop.y = RSub(H, RDiv(RMul(R(rect.y + rect.height), H), R(100)))
          /\ after[at].crop.width = RDiv(RMul(R(rect.width), W), R(100))
          /\ after[at].crop.height = RDiv(RMul(R(rect.height), H), R(100))
          /\ after[at] = [before[at] EXCEPT !.crop = after[at].crop]
          /\ \A j \in 1 .. Len(before) : j # at => after[j] = before[j]

\* A crop has gone through whose box starts right of the page and ends below it.
C28_Witness ==
    \E i \in DoneOf("crop") :
      LET page == done[i].op.base[done[i].op.args.index + 1]
          box == done[i].after[done[i].op.args.index + 1].crop
      IN  /\ done[i].op.args.rect.x = 150
          /\ done[i].op.args.rect.y = 150
          /\ RLess(R(page.width), box.x)
          /\ RLess(box.y, R(0))
          /\ Len(done[i].op.base) = 2

\* C29: when a structure edit (rotate, delete, reorder or crop) goes through, the
\* selection is empty in the state it leaves.
C29_SelectionCleared ==
    [][Len(done') > Len(done) =>
          /\ done'[Len(done')].op.kind \in {"rotate", "delete", "reorder", "crop"}
          /\ selectedPages' = {}]_vars

\* A crop has just gone through while a page was selected.
C29_Witness ==
    /\ Len(done) >= 1
    /\ done[Len(done)].op.kind = "crop"
    /\ done[Len(done)].op.selected # {}
    /\ selectedPages = {}
    /\ ~isProcessing

\* C30: an annotation whose replay throws is skipped as a whole: the document that a
\* save offers holds no draw call of it (no background rectangle of a note whose text
\* cannot be drawn).
C30_FailedAnnotationSkipped ==
    Saved =>
      \A pi \in Stored :
        Unreplayable(annotations[pi[1]][pi[2]]) => Len(OpsFor(pi[1], pi[2])) = 0

\* C31: when the apply of a crop fails, the crop session (the page index and the
\* percentage rectangle) and the bytes in memory are what they were before the attempt.
C31_CropFailureKeepsSession ==
    [][\A k \in 1 .. Len(flights), fault \in {"none", "load", "callback", "save"} :
          (SettleUpdate(k, fault) /\ flights[k].kind = "crop" /\ EditFailed(out')) =>
            /\ cropMode' = cropMode
            /\ cropRect' = cropRect
            /\ pdfBytes' = pdfBytes]_vars

\* The state of the editor component.
EditorState == <<docVars, tool, annotations, textInput, drawVars, imageVars>>

C33_StagedOnlyWithImageTool ==
    pendingImage # NULL => tool = "image"

C35_PageInRange ==
    /\ pageNumber >= 1
    /\ numPages # 0 => (numPages = Len(DocPages) /\ pageNumber <= numPages)
    /\ \A p \in DOMAIN annotations : 1 <= p /\ p <= Len(DocPages)
    /\ \A p \in DOMAIN annotations : p - 1 >= 0 /\ p - 1 < Len(DocPages)

\* The last page is displayed, it has an annotation, and the document was saved.
C35_Witness ==
    /\ pageNumber = Len(DocPages)
    /\ Len(DocPages) \in DOMAIN annotations
    /\ Saved
    /\ \E i \in 1 .. Len(out.ops) : out.ops[i].page = Len(DocPages)

C38_PathPoints ==
    /\ [](\A pi \in Stored :
            annotations[pi[1]][pi[2]].type = "path" =>
              Len(annotations[pi[1]][pi[2]].points) >= 1)
    /\ [][(StopDrawing /\ isDrawing /\ tool \in {"pen", "highlight"}
              /\ Len(captured) = 1) =>
            /\ Len(committed') = Len(committed) + 1
            /\ committed'[Len(committed')].ann.type = "path"
            /\ committed'[Len(committed')].ann.points = captured]_vars
    /\ []((out # NULL /\ out.fault = "none") =>
            /\ \A pi \in Stored :
                  (/\ annotations[pi[1]][pi[2]].type = "path"
                   /\ Len(annotations[pi[1]][pi[2]].points) < 2) =>
                     Len(OpsFor(pi[1], pi[2])) = 0
            /\ Len(ErrorEntries) =
                 Cardinality({pi \in Stored : Unreplayable(annotations[pi[1]][pi[2]])}))

\* A document with a one-point path has been saved.
C38_Witness ==
    /\ Saved
    /\ out.fault = "none"
    /\ \E pi \in Stored :
          /\ annotations[pi[1]][pi[2]].type = "path"
          /\ Len(annotations[pi[1]][pi[2]].points) = 1

\* C37: in the organizer the processing flag is true whenever a structure edit is
\* in flight, and when none is in flight and no drag is under way the flag is false
\* and the remembered drag source index is cleared.
C37_IdleWhenNoFlight ==
    mode = "organize" =>
      /\ (\E k \in 1 .. Len(flights) : flights[k].kind \in StructureKinds) => isProcessing
      /\ (flights = <<>> /\ ~dragging) => (~isProcessing /\ draggedIndex = NoIndex)

\* C39: every index in the selection is a page of the document in memory, also
\* while the viewer has not yet reported the page count of a document that replaced
\* another, and every delete in flight removes only pages of the document it loads.
C39_SelectionInDocument ==
    mode = "organize" =>
      /\ \A i \in selectedPages : 0 <= i /\ i < Len(pdfBytes)
      /\ \A k \in 1 .. Len(flights) :
            flights[k].kind = "delete" =>
              /\ flights[k].selected # {}
              /\ \A i \in flights[k].selected : 0 <= i /\ i < Len(flights[k].base)

\* A delete has made the document shorter and the page count shown is still that
\* of the document before it.
C39_Witness ==
    /\ mode = "organize"
    /\ \E i \in DoneOf("delete") :
          pdfBytes = done[i].after /\ Len(done[i].after) < Len(done[i].op.base)
    /\ pageCount > Len(pdfBytes)
    /\ loadedUrl # pdfUrl

====
